---- MODULE Spec2Model ----
(***************************************************************************)
(* Model of ocpmodels/trainers/distill_trainer.py (DistillForcesTrainer).  *)
(*                                                                         *)
(* Spec      : the training loop train() with update_best, one action per  *)
(*             loop iteration, epoch boundary, entry and exit.             *)
(* SpecCtor  : the constructor's distillation set-up and the loss dispatch *)
(*             of a training step that reads what the constructor set.     *)
(* SpecFwd   : the forward passes of a training step (_distill_forward,    *)
(*             the adversarial searches) and the loss summation.           *)
(* SpecLoad  : load_teacher, the key renaming of a teacher checkpoint.     *)
(* SpecGen   : the perturbation generators _random_jitter_batch,           *)
(*             _adversarial_batch and _adversarial_pgd_batch.              *)
(* SpecPair  : the index pairs of _global_preservation.                    *)
(* SpecWeight: _loss_weights_d1M and the energy and force terms of         *)
(*             _compute_loss.                                              *)
(***************************************************************************)
EXTENDS Integers, Sequences, FiniteSets, TLC

(***************************************************************************)
(* Bounds of the model.                                                    *)
(***************************************************************************)
MaxLoaderLen == 2
MaxEpochs == 2
MaxEvery == 2

\* Values a validation pass can report for the primary metric.
MetricValues == {1, 2, 3}

\* best_val_metric as a loaded checkpoint can have left it.
PersistedBest == {2}

\* Primary metric names; the code only asks whether the name contains "mae".
MetricNames == {"forces_mae", "energy_force_within_threshold"}

VARIABLES
    config,           \* the configuration and loaders train() reads
    pc,               \* position of train(): init, epoch_start, step, epoch_end, finish, done, crashed
    step,             \* self.step
    step0,            \* self.step as the checkpoint (or the constructor) left it when train() was entered
    epoch_num,        \* self.epoch as the numerator of a fraction over len(train_loader)
    epoch_int,        \* loop variable epoch_int of train()
    start_epoch,      \* local start_epoch of train()
    skip_steps,       \* local skip_steps of train()
    i,                \* loop variable i of train()
    best_val_metric,  \* self.best_val_metric
    val_metrics,      \* local val_metrics of train(): <<>> while unbound, <<m>> once assigned
    events,           \* what the last loop iteration (or epoch end) did, in order
    seen,             \* every metric value handed to update_best so far
    best0,            \* self.best_val_metric as train() left it before the first epoch
    n_steps,          \* loop iterations executed by this train() call
    n_ckpt,           \* writes of checkpoint.pt so far
    n_val,            \* validation passes so far
    n_sched,          \* scheduler.step calls so far
    n_best,           \* writes of best_checkpoint.pt so far
    n_predict,        \* predict(test_loader) calls so far
    error             \* the exception that ended train(), "" if none

VARIABLES
    dconfig,                     \* config["distillation"] as handed to __init__
    cpc,                         \* idle, new, constructed, failed
    attrs,                       \* the attributes __init__ has set on self
    teacher_built,               \* self.teacher was built and loaded
    distill_fns,                 \* self.distill_fns
    distill_lambda,              \* self.distill_lambda
    adversarial_distill_fns,     \* self.adversarial_distill_fns
    adversarial_distill_lambda,  \* self.adversarial_distill_lambda
    n_losses_ok,                 \* training steps whose loss evaluation completed
    cerr                         \* the exception raised by the constructor or the loss evaluation

VARIABLES
    fconfig,          \* what the forward passes of a training step depend on
    fpc,              \* idle, start, loss, distill, adv_loop, sum, done, failed
    teacher_passes,   \* every forward pass of the teacher so far, in order
    out_keys,         \* keys of out_batch["out"] of the last _distill_forward
    t_out_keys,       \* keys of out_batch["t_out"] of the last _distill_forward
    k_adv,            \* inner iterations of the adversarial search done
    terms,            \* the distillation terms of this step (distill_loss in train())
    summed,           \* the loss terms summed into the training loss so far
    ferr              \* the exception that ended the step, "" if none

VARIABLES
    lconfig,          \* what load_teacher depends on: the process group, noddp, the checkpoint
    lpc,              \* idle, start, loaded, failed
    handed_keys,      \* the keys of the dict handed to self.teacher.load_state_dict
    lerr              \* the exception load_teacher raised, "" if none

VARIABLES
    wconfig,            \* the batch list, the configuration and the inputs of _compute_loss
    wpc,                \* idle, start, energy, forces, done, failed
    weight_per_node,    \* local weight_per_node of _compute_loss
    weight_per_sample,  \* local weight_per_sample of _compute_loss
    out_energy,         \* out["energy"], the caller's tensor
    out_forces,         \* out["forces"], the caller's tensor
    energy_target,      \* local energy_target, <<>> while unbound
    force_target,       \* local force_target, <<>> while unbound
    loss_terms,         \* local loss of _compute_loss: the list of terms
    werr                \* the exception that ended _compute_loss, "" if none

VARIABLES
    gconfig,        \* the generator called and the attributes it reads
    gpc,            \* idle, start, loop, done, failed
    g_batch_list,   \* the batch list handed in, as the caller sees it
    delta_list,     \* local delta_list
    delta_grad,     \* delta.grad of every delta of the PGD search, <<>> while None
    delta_hist,     \* delta_list as initialised and after every update
    dirs,           \* what was drawn: displacements, Adam ratios or gradients, per iteration
    fwd_deltas,     \* the delta_list every forward pass of the search was perturbed with
    increment,      \* what the last PGD update added to delta_list
    k_iter,         \* iterations of the search loop done
    return_batch,   \* local return_batch of _adversarial_batch, <<>> while unbound
    returned,       \* the batch list returned, <<>> before
    gerr            \* the exception that ended the generator, "" if none

VARIABLES
    pconfig,   \* the batch list handed to _global_preservation
    ppc,       \* idle, start, paired, done, failed
    index1,    \* local index1
    index2,    \* local index2
    gp_loss    \* what _global_preservation returned, or the error it raised

VARIABLES
    rconfig,    \* the processes, the relax dataset and loader and config["task"] of run_relaxations
    rproc,      \* per rank: position in run_relaxations and its locals
    rfiles      \* the .npz files of results_dir

VARIABLES
    qconfig,    \* whether the trainer has self.ema
    qpc,        \* idle, ready (no call running), predict, relaxing
    qcall,      \* the arguments of the running predict call, its caller and loop index
    predictions,\* local predictions of predict, and what the last call returned
    weights,    \* the model's parameters and ema.collected_params
    n_calls     \* calls of predict and run_relaxations so far

trainVars == <<config, pc, step, step0, epoch_num, epoch_int, start_epoch, skip_steps, i,
               best_val_metric, val_metrics, events, seen, best0, n_steps, n_ckpt,
               n_val, n_sched, n_best, n_predict, error>>

ctorVars == <<dconfig, cpc, attrs, teacher_built, distill_fns, distill_lambda,
              adversarial_distill_fns, adversarial_distill_lambda, n_losses_ok, cerr>>

fwdVars == <<fconfig, fpc, teacher_passes, out_keys, t_out_keys, k_adv, terms, summed, ferr>>

loadVars == <<lconfig, lpc, handed_keys, lerr>>

weightVars == <<wconfig, wpc, weight_per_node, weight_per_sample, out_energy, out_forces,
                energy_target, force_target, loss_terms, werr>>

genVars == <<gconfig, gpc, g_batch_list, delta_list, delta_grad, delta_hist, dirs, fwd_deltas,
             increment, k_iter, return_batch, returned, gerr>>

pairVars == <<pconfig, ppc, index1, index2, gp_loss>>

relaxVars == <<rconfig, rproc, rfiles>>

predictVars == <<qconfig, qpc, qcall, predictions, weights, n_calls>>

vars == <<trainVars, ctorVars, fwdVars, loadVars, weightVars, genVars, pairVars,
          relaxVars, predictVars>>

\* what train() leaves alone
notTrain == <<pairVars, genVars, weightVars, ctorVars, fwdVars, loadVars, relaxVars,
              predictVars>>

\* what the constructor and the loss dispatch leave alone
notCtor == <<pairVars, genVars, weightVars, trainVars, fwdVars, loadVars, relaxVars,
             predictVars>>

\* what the forward passes leave alone
notFwd == <<pairVars, genVars, weightVars, trainVars, ctorVars, loadVars, relaxVars,
            predictVars>>

\* what load_teacher leaves alone
notLoad == <<pairVars, genVars, trainVars, ctorVars, fwdVars, weightVars, relaxVars,
             predictVars>>

\* what the perturbation generators leave alone
notGen == <<pairVars, trainVars, ctorVars, fwdVars, loadVars, weightVars, relaxVars,
            predictVars>>

\* what _global_preservation leaves alone
notPair == <<trainVars, ctorVars, fwdVars, loadVars, weightVars, genVars, relaxVars,
             predictVars>>

\* what _compute_loss leaves alone
notWeight == <<pairVars, genVars, trainVars, ctorVars, fwdVars, loadVars, relaxVars,
               predictVars>>

\* what run_relaxations leaves alone
notRelax == <<trainVars, ctorVars, fwdVars, loadVars, weightVars, genVars, pairVars,
              predictVars>>

\* what predict and the EMA swap leaves alone
notPredict == <<trainVars, ctorVars, fwdVars, loadVars, weightVars, genVars, pairVars,
                relaxVars>>

(***************************************************************************)
(* Pure helpers of train() and update_best.                                *)
(***************************************************************************)

\* "mae" in primary_metric
HasMae(name) == name \in {"forces_mae", "energy_mae"}

\* 1e9 if "mae" in primary_metric else -1.0
BestInitMae == 1000000000
BestInitOther == -1
BestInit(name) == IF HasMae(name) THEN BestInitMae ELSE BestInitOther

\* eval_every = config["optim"].get("eval_every", len(train_loader)); 0 stands for an absent key
EvalEvery(cfg) == IF cfg.eval_every = 0 THEN cfg.L ELSE cfg.eval_every

\* checkpoint_every = config["optim"].get("checkpoint_every", eval_every); 0 stands for an absent key
CheckpointEvery(cfg) == IF cfg.checkpoint_every = 0 THEN EvalEvery(cfg) ELSE cfg.checkpoint_every

\* start_epoch = self.step // len(self.train_loader)
StartEpoch(s, L) == s \div L

\* skip_steps = self.step % len(self.train_loader)
SkipStepsZero(s, L) == 0
SkipSteps(s, L) == s % L

\* self.step = epoch_int * len(self.train_loader) + i + 1
StepOf(e, idx, L) == e * L + idx + 1

\* checkpoint_every != -1 and self.step % checkpoint_every == 0
CheckpointDueAlways(s, ce) == ce # -1
CheckpointDue(s, ce) == ce # -1 /\ s % ce = 0

\* self.step % eval_every == 0
EvalDue(s, ee) == s % ee = 0

\* the condition of update_best
IsBetterOrEqual(name, m, best) == \/ HasMae(name) /\ m <= best
                                  \/ ~HasMae(name) /\ m >= best
IsBetter(name, m, best) == \/ HasMae(name) /\ m < best
                           \/ ~HasMae(name) /\ m > best

Ev(kind, val) == [kind |-> kind, val |-> val]

\* update_best(primary_metric, val_metrics): the events it adds and the new best
UpdateBestEvents(cfg, m, best) ==
    IF IsBetter(cfg.primary_metric, m, best)
    THEN <<Ev("best_save", m)>> \o (IF cfg.has_test THEN <<Ev("predict", m)>> ELSE <<>>)
    ELSE <<>>

UpdateBestValue(cfg, m, best) ==
    IF IsBetter(cfg.primary_metric, m, best) THEN m ELSE best

Count(evs, kind) == Cardinality({k \in 1..Len(evs) : evs[k].kind = kind})

(***************************************************************************)
(* Configurations.                                                         *)
(***************************************************************************)
Configs ==
    [ L : 1..MaxLoaderLen,                 \* len(self.train_loader)
      max_epochs : 1..MaxEpochs,           \* config["optim"]["max_epochs"]
      eval_every : 0..MaxEvery,            \* config["optim"]["eval_every"], 0 = absent
      checkpoint_every : {-1} \cup (0..MaxEvery),
      scheduler_type : {"ReduceLROnPlateau", "LambdaLR"},
      has_val : BOOLEAN,                   \* self.val_loader is not None
      has_test : BOOLEAN,                  \* self.test_loader is not None
      primary_metric : MetricNames,
      same_primary : BOOLEAN ]             \* hasattr(self, "primary_metric") and it equals the configured one

(***************************************************************************)
(* train()                                                                 *)
(***************************************************************************)
TrainInit ==
    /\ config \in Configs
    /\ pc = "init"
    /\ step \in 0..(config.L * config.max_epochs)
    /\ step0 = step
    /\ epoch_num = 0
    /\ epoch_int = 0
    /\ start_epoch = 0
    /\ skip_steps = 0
    /\ i = 0
    /\ best_val_metric \in PersistedBest
    /\ val_metrics = <<>>
    /\ events = <<>>
    /\ seen = {}
    /\ best0 = best_val_metric
    /\ n_steps = 0
    /\ n_ckpt = 0
    /\ n_val = 0
    /\ n_sched = 0
    /\ n_best = 0
    /\ n_predict = 0
    /\ error = ""

\* lines 837-860: the prelude of train() up to the first evaluation of the epoch range
TrainEnter ==
    /\ UNCHANGED notTrain
    /\ pc = "init"
    /\ best_val_metric' = IF ~config.same_primary
                          THEN BestInit(config.primary_metric)
                          ELSE best_val_metric
    /\ best0' = best_val_metric'
    /\ start_epoch' = StartEpoch(step, config.L)
    /\ epoch_int' = start_epoch'
    /\ pc' = IF start_epoch' < config.max_epochs THEN "epoch_start" ELSE "finish"
    /\ UNCHANGED <<config, step, step0, epoch_num, skip_steps, i, val_metrics, events,
                   seen, n_steps, n_ckpt, n_val, n_sched, n_best, n_predict, error>>

\* lines 862-866: the head of one epoch
EpochStart ==
    /\ UNCHANGED notTrain
    /\ pc = "epoch_start"
    /\ skip_steps' = SkipSteps(step, config.L)
    /\ i' = skip_steps'
    /\ pc' = IF skip_steps' < config.L THEN "step" ELSE "epoch_end"
    /\ UNCHANGED <<config, step, step0, epoch_num, epoch_int, start_epoch, best_val_metric,
                   val_metrics, events, seen, best0, n_steps, n_ckpt, n_val, n_sched,
                   n_best, n_predict, error>>

\* lines 867-973: one iteration of the inner loop, with validation metric m
TrainStepWith(m) ==
    LET L == config.L
        ee == EvalEvery(config)
        ce == CheckpointEvery(config)
        s == StepOf(epoch_int, i, L)
        ckpt == CheckpointDue(s, ce)
        evald == EvalDue(s, ee)
        validates == evald /\ config.has_val
        evCkpt == IF ckpt THEN <<Ev("ckpt", s)>> ELSE <<>>
        evVal == IF validates
                 THEN <<Ev("val", m)>> \o UpdateBestEvents(config, m, best_val_metric)
                 ELSE <<>>
        vm == IF validates THEN <<m>> ELSE val_metrics
        plateau == config.scheduler_type = "ReduceLROnPlateau"
        schedCalled == IF plateau THEN evald /\ vm # <<>> ELSE TRUE
        unbound == plateau /\ evald /\ vm = <<>>
        evSched == IF schedCalled
                   THEN <<Ev("sched", IF plateau THEN vm[1] ELSE 0)>>
                   ELSE <<>>
        evs == <<Ev("step", s)>> \o evCkpt \o evVal \o evSched
    IN  /\ epoch_num' = epoch_int * L + (i + 1)
        /\ step' = s
        /\ n_steps' = n_steps + 1
        /\ events' = evs
        /\ val_metrics' = vm
        /\ best_val_metric' = IF validates
                              THEN UpdateBestValue(config, m, best_val_metric)
                              ELSE best_val_metric
        /\ seen' = IF validates THEN seen \cup {m} ELSE seen
        /\ n_ckpt' = n_ckpt + Count(evs, "ckpt")
        /\ n_val' = n_val + Count(evs, "val")
        /\ n_sched' = n_sched + Count(evs, "sched")
        /\ n_best' = n_best + Count(evs, "best_save")
        /\ n_predict' = n_predict + Count(evs, "predict")
        /\ IF unbound
           THEN /\ pc' = "crashed"
                /\ error' = "UnboundLocalError"
                /\ i' = i
           ELSE /\ error' = error
                /\ i' = i + 1
                /\ pc' = IF i + 1 < L THEN "step" ELSE "epoch_end"
        /\ UNCHANGED <<config, step0, epoch_int, start_epoch, skip_steps, best0>>

TrainStep ==
    /\ UNCHANGED notTrain
    /\ pc = "step"
    /\ \E m \in MetricValues : TrainStepWith(m)

\* lines 975-978 and the next evaluation of the epoch range
EpochEnd ==
    /\ UNCHANGED notTrain
    /\ pc = "epoch_end"
    /\ events' = IF CheckpointEvery(config) = -1 THEN <<Ev("ckpt_epoch", step)>> ELSE <<>>
    /\ n_ckpt' = n_ckpt + Count(events', "ckpt_epoch")
    /\ epoch_int' = epoch_int + 1
    /\ pc' = IF epoch_int' < config.max_epochs THEN "epoch_start" ELSE "finish"
    /\ UNCHANGED <<config, step, step0, epoch_num, start_epoch, skip_steps, i, best_val_metric,
                   val_metrics, seen, best0, n_steps, n_sched, n_val, n_best,
                   n_predict, error>>

\* lines 980-984
TrainFinish ==
    /\ UNCHANGED notTrain
    /\ pc = "finish"
    /\ pc' = "done"
    /\ UNCHANGED <<config, step, step0, epoch_num, epoch_int, start_epoch, skip_steps, i,
                   best_val_metric, val_metrics, events, seen, best0, n_steps, n_ckpt,
                   n_val, n_sched, n_best, n_predict, error>>

\* train() is not running
TrainIdle ==
    /\ config = [L |-> 1, max_epochs |-> 1, eval_every |-> 0, checkpoint_every |-> 0,
                 scheduler_type |-> "LambdaLR", has_val |-> FALSE, has_test |-> FALSE,
                 primary_metric |-> "forces_mae", same_primary |-> FALSE]
    /\ pc = "idle"
    /\ step = 0 /\ step0 = 0 /\ epoch_num = 0 /\ epoch_int = 0 /\ start_epoch = 0
    /\ skip_steps = 0 /\ i = 0 /\ best_val_metric = 0 /\ val_metrics = <<>>
    /\ events = <<>> /\ seen = {} /\ best0 = 0 /\ n_steps = 0 /\ n_ckpt = 0
    /\ n_val = 0 /\ n_sched = 0 /\ n_best = 0 /\ n_predict = 0 /\ error = ""

(***************************************************************************)
(* __init__: the distillation set-up (lines 130-249), and the loss         *)
(* dispatch of a training step (lines 876-884) that reads it.              *)
(***************************************************************************)
MaxFns == 2
MaxTrainSteps == 2

\* loss names train() can dispatch to (methods _<name> of the trainer)
LossNames == {"node2node_distill_loss", "vec2vec_geometric",
              "random_jitter_distill_loss", "adversarial_jitter_distill_loss"}

\* names the jitter losses can dispatch to; "regular" selects _compute_loss_distill
AdvLossNames == {"regular", "node2node_distill_loss"}

SeqsUpTo(S, n) == UNION {[1..k -> S] : k \in 1..n}

\* "random_jitter" in config["distillation"]["distill_loss"]: a substring test on
\* the comma-separated string, true exactly when a listed name contains it
HasRandomJitter(names) == \E k \in 1..Len(names) : names[k] = "random_jitter_distill_loss"

\* "adversarial_jitter" in ... / "adversarial" in ...
HasAdversarialJitter(names) == \E k \in 1..Len(names) : names[k] = "adversarial_jitter_distill_loss"

\* a coefficient as configured: a float, or a list of `len` floats
LambdaShapes(n) == {[is_float |-> TRUE, len |-> 1]} \cup
                   {[is_float |-> FALSE, len |-> k] : k \in {n - 1, n, n + 1} \ {-1}}

Ones(n) == [k \in 1..n |-> 1]

\* loss_weighting_synthetic: <<>> when the key is absent, else <<ratio>>
RatioValues == {<<>>, <<0>>, <<2>>}

DefaultAdv == [adversarial_distill_loss |-> <<"regular">>,
               adversarial_distill_lambda |-> [is_float |-> TRUE, len |-> 1]]

DConfigs ==
    { [distill_loss |-> names,
       distill_lambda |-> lam,
       adversarial_distill_loss |-> adv.adversarial_distill_loss,
       adversarial_distill_lambda |-> adv.adversarial_distill_lambda,
       loss_weighting_synthetic |-> ratio] :
         names \in SeqsUpTo(LossNames, MaxFns),
         lam \in LambdaShapes(MaxFns),
         adv \in {DefaultAdv} \cup
                 { [adversarial_distill_loss |-> an, adversarial_distill_lambda |-> al] :
                     an \in SeqsUpTo(AdvLossNames, MaxFns), al \in LambdaShapes(MaxFns) },
         ratio \in RatioValues }

\* the configurations drawn: the coefficient lists are as long as their name list
\* or one off, and the adversarial keys vary only where __init__ reads them
DConfigOk(d) ==
    /\ d.distill_lambda \in LambdaShapes(Len(d.distill_loss))
    /\ d.adversarial_distill_lambda \in LambdaShapes(Len(d.adversarial_distill_loss))
    /\ (~HasRandomJitter(d.distill_loss) /\ ~HasAdversarialJitter(d.distill_loss))
           => (d.adversarial_distill_loss = DefaultAdv.adversarial_distill_loss
               /\ d.adversarial_distill_lambda = DefaultAdv.adversarial_distill_lambda)

\* lines 157-170
RandomAttrs == {"random_std", "random_fixed_length", "random_mode", "transform"}

\* lines 172-206
AdversarialAttrs == {"transform", "adversarial_lr", "n_adversarial_steps", "adversarial_alpha",
                     "adversarial_pgd", "adversarial_pgd_ball", "adversarial_pgd_mode",
                     "adversarial_init_sd", "adversarial_teacher_grad",
                     "adversarial_force_prop", "force_regularization_lambda"}

\* lines 157-206: if "random_jitter" in ...: ... elif "adversarial_jitter" in ...: ...
JitterAttrs(names) ==
    IF HasRandomJitter(names) THEN RandomAttrs
    ELSE IF HasAdversarialJitter(names) THEN AdversarialAttrs
    ELSE {}

\* lines 222-227 and 239-249: [coefficient] * len(self.distill_fns) for a float,
\* the configured list as it is otherwise
LambdaList(shape, fns, own) ==
    IF shape.is_float THEN Ones(Len(fns)) ELSE Ones(shape.len)

\* the attributes of self a loss method reads before it returns
AttrsRead(name) ==
    CASE name = "vec2vec_geometric" -> {"v2v_geom_lambda"}
      [] name = "random_jitter_distill_loss" ->
            RandomAttrs \cup {"adversarial_distill_fns", "adversarial_distill_lambda"}
      [] name = "adversarial_jitter_distill_loss" ->
            {"adversarial_pgd", "adversarial_init_sd", "n_adversarial_steps", "transform",
             "adversarial_distill_fns", "adversarial_distill_lambda"}
      [] OTHER -> {}

\* _loss_weights_d1M, lines 566-584: assert ratio_synth_to_dft > 0.0
RatioAssertFails(ratio) == ratio # <<>> /\ ~(ratio[1] > 0)

\* the loop over self.adversarial_distill_fns of a jitter loss (lines 763-775,
\* 821-833): the first exception it raises, "" if none
RECURSIVE AdvLoopError(_, _, _, _)
AdvLoopError(k, fns, lam, have) ==
    IF k > Len(fns) THEN ""
    ELSE IF ~(AttrsRead(fns[k]) \subseteq have) THEN "AttributeError"
    ELSE IF k > Len(lam) THEN "IndexError"
    ELSE AdvLoopError(k + 1, fns, lam, have)

\* getattr(self, "_" + loss_type)(out_batch, batch): the first exception, "" if none
TermError(name, have, afns, alam) ==
    IF ~(AttrsRead(name) \subseteq have) THEN "AttributeError"
    ELSE IF name \in {"random_jitter_distill_loss", "adversarial_jitter_distill_loss"}
         THEN AdvLoopError(1, afns, alam, have)
         ELSE ""

\* lines 879-883: the loop over self.distill_fns
RECURSIVE DispatchError(_, _, _, _, _, _)
DispatchError(k, fns, lam, have, afns, alam) ==
    IF k > Len(fns) THEN ""
    ELSE IF TermError(fns[k], have, afns, alam) # "" THEN TermError(fns[k], have, afns, alam)
    ELSE IF k > Len(lam) THEN "IndexError"
    ELSE DispatchError(k + 1, fns, lam, have, afns, alam)

CtorInit ==
    /\ dconfig \in {d \in DConfigs : DConfigOk(d)}
    /\ cpc = "new"
    /\ attrs = {}
    /\ teacher_built = FALSE
    /\ distill_fns = <<>>
    /\ distill_lambda = <<>>
    /\ adversarial_distill_fns = <<>>
    /\ adversarial_distill_lambda = <<>>
    /\ n_losses_ok = 0
    /\ cerr = ""

\* the constructor is not running
CtorIdle ==
    /\ dconfig = [distill_loss |-> <<"node2node_distill_loss">>,
                  distill_lambda |-> [is_float |-> TRUE, len |-> 1],
                  adversarial_distill_loss |-> DefaultAdv.adversarial_distill_loss,
                  adversarial_distill_lambda |-> DefaultAdv.adversarial_distill_lambda,
                  loss_weighting_synthetic |-> <<>>]
    /\ cpc = "idle"
    /\ attrs = {}
    /\ teacher_built = FALSE
    /\ distill_fns = <<>>
    /\ distill_lambda = <<>>
    /\ adversarial_distill_fns = <<>>
    /\ adversarial_distill_lambda = <<>>
    /\ n_losses_ok = 0
    /\ cerr = ""

\* __init__, lines 130-249
Construct ==
    /\ UNCHANGED notCtor
    /\ cpc = "new"
    /\ LET names == dconfig.distill_loss
           jitter == HasRandomJitter(names) \/ HasAdversarialJitter(names)
       IN  /\ teacher_built' = TRUE
           /\ distill_fns' = names
           /\ distill_lambda' = LambdaList(dconfig.distill_lambda, names, names)
           /\ adversarial_distill_fns' =
                  IF jitter THEN dconfig.adversarial_distill_loss ELSE <<>>
           /\ adversarial_distill_lambda' =
                  IF jitter
                  THEN LambdaList(dconfig.adversarial_distill_lambda, names,
                                  dconfig.adversarial_distill_loss)
                  ELSE <<>>
           /\ attrs' = JitterAttrs(names) \cup {"v2v_geom_lambda", "distill_fns", "distill_lambda"}
                       \cup (IF jitter
                             THEN {"adversarial_distill_fns", "adversarial_distill_lambda"}
                             ELSE {})
    /\ cpc' = "constructed"
    /\ UNCHANGED <<dconfig, n_losses_ok, cerr>>

\* train(), lines 876-884: the supervised loss and the distillation terms of one step
StepLosses ==
    /\ UNCHANGED notCtor
    /\ cpc = "constructed"
    /\ n_losses_ok < MaxTrainSteps
    /\ LET e == IF RatioAssertFails(dconfig.loss_weighting_synthetic)
                THEN "AssertionError"
                ELSE DispatchError(1, distill_fns, distill_lambda, attrs,
                                   adversarial_distill_fns, adversarial_distill_lambda)
       IN  /\ cerr' = e
           /\ cpc' = IF e = "" THEN "constructed" ELSE "failed"
           /\ n_losses_ok' = IF e = "" THEN n_losses_ok + 1 ELSE n_losses_ok
    /\ UNCHANGED <<dconfig, attrs, teacher_built, distill_fns, distill_lambda,
                   adversarial_distill_fns, adversarial_distill_lambda>>

CtorNext == Construct \/ StepLosses


(***************************************************************************)
(* Properties of the constructor and the loss dispatch.                    *)
(***************************************************************************)
Constructed == cpc \in {"constructed", "failed"}

UsesJitter == HasRandomJitter(dconfig.distill_loss) \/ HasAdversarialJitter(dconfig.distill_loss)

\* C7 (as claimed): with a coefficient configured as a single float,
\* distill_lambda has one entry per name of distill_fns and
\* adversarial_distill_lambda one entry per name of adversarial_distill_fns,
\* and no index used when summing the terms is out of range.
C7_CoefficientPerName ==
    Constructed =>
        /\ dconfig.distill_lambda.is_float => Len(distill_lambda) = Len(distill_fns)
        /\ (UsesJitter /\ dconfig.adversarial_distill_lambda.is_float) =>
               Len(adversarial_distill_lambda) = Len(adversarial_distill_fns)
        /\ (dconfig.distill_lambda.is_float /\ dconfig.adversarial_distill_lambda.is_float) =>
               cerr # "IndexError"

\* C8 (as claimed): for every list of loss names the trainer defines, the
\* constructor sets every attribute the named losses read, and no loss is
\* evaluated with an attribute missing.
C8_AttributesInitialised ==
    Constructed =>
        /\ \A k \in 1..Len(distill_fns) : AttrsRead(distill_fns[k]) \subseteq attrs
        /\ cerr # "AttributeError"

\* a coefficient list whose length differs from the number of loss names
BadShape(shape, names) == ~shape.is_float /\ shape.len # Len(names)

BadConfig ==
    \/ BadShape(dconfig.distill_lambda, dconfig.distill_loss)
    \/ UsesJitter /\ BadShape(dconfig.adversarial_distill_lambda, dconfig.adversarial_distill_loss)
    \/ RatioAssertFails(dconfig.loss_weighting_synthetic)

\* C9 (as claimed): a coefficient of the wrong shape and a weighting ratio
\* <= 0 are rejected in the constructor, before the teacher is built, and no
\* training step runs with such a configuration.
C9_RejectedAtConstruction ==
    BadConfig => (~teacher_built /\ cpc # "constructed" /\ n_losses_ok = 0)


(***************************************************************************)
(* The forward passes and the loss summation of one training step:         *)
(* _distill_forward (lines 1031-1090), _adversarial_batch (620-655),       *)
(* _adversarial_pgd_batch (657-751), the jitter losses (753-834),          *)
(* _compute_loss (1092-1224) and train() lines 876-884.                    *)
(***************************************************************************)
MaxSystems == 2
MaxAdvSteps == 2

\* the adversarial settings as __init__ defaults them (lines 176-206)
DefaultSearch == [pgd |-> FALSE, adversarial_teacher_grad |-> TRUE,
                  force_reg |-> FALSE, n_adversarial_steps |-> 1]

FConfigs ==
    { [student_rf |-> s, teacher_rf |-> tt, n_systems |-> n, jitter |-> j,
       pgd |-> a.pgd, adversarial_teacher_grad |-> a.adversarial_teacher_grad,
       force_reg |-> a.force_reg, n_adversarial_steps |-> a.n_adversarial_steps] :
         s \in BOOLEAN, tt \in BOOLEAN, n \in 1..MaxSystems,
         j \in {"none", "random", "adversarial"},
         a \in [pgd : BOOLEAN, adversarial_teacher_grad : BOOLEAN,
                force_reg : BOOLEAN, n_adversarial_steps : 0..MaxAdvSteps] }

\* the search settings vary only where they are read; the jitter losses are
\* configured with adversarial_distill_loss = "regular"
FConfigOk(c) ==
    c.jitter # "adversarial" =>
        [pgd |-> c.pgd, adversarial_teacher_grad |-> c.adversarial_teacher_grad,
         force_reg |-> c.force_reg, n_adversarial_steps |-> c.n_adversarial_steps] = DefaultSearch

\* what extract_features returns, as the unpacking of the student's result
\* expects it: three features, and [energy, forces] with regress_forces,
\* the energy tensor alone without
NetReturn(rf) == [n_features |-> 3, second |-> IF rf THEN "pair" ELSE "tensor"]

\* [a, b] = x: a pair unpacks; a tensor unpacks along its first dimension,
\* which for the energy is the number of systems
UnpackTwoOk(second, n_systems) == second = "pair" \/ n_systems = 2

\* with torch.no_grad() around the teacher's pass: if not teacher_grad
TeacherGradAlways(teacher_grad) == FALSE
TeacherNoGrad(teacher_grad) == ~teacher_grad

StudentKeys(rf) == {"node_feature", "n2e_feature", "vector_feature", "energy"}
                   \cup (IF rf THEN {"forces"} ELSE {})

TeacherKeys(rf) == {"node_feature", "e2n_feature", "vector_feature", "energy"}
                   \cup (IF rf THEN {"forces"} ELSE {})

\* _distill_forward(batch_list, teacher_grad): the exception it raises ("" if
\* none), the keys of the two dictionaries, and the teacher pass it made
DistillForward(c, teacher_grad) ==
    LET sret == NetReturn(c.student_rf)
        tret == NetReturn(c.teacher_rf)
        pass == [site |-> "distill_forward", no_grad |-> TeacherNoGrad(teacher_grad),
                 requested |-> teacher_grad]
        e == IF c.student_rf
             THEN \* [tfnode, tfe2n, tfvec], [t_out_energy, t_out_forces] = ...
                  IF tret.n_features = 3 /\ UnpackTwoOk(tret.second, c.n_systems)
                  THEN "" ELSE "ValueError"
             ELSE \* [tfnode, tfe2n], t_out_energy = ...; tfvec is never bound
                  IF tret.n_features # 2 \/ tret.second = "pair" THEN "ValueError"
                  ELSE "UnboundLocalError"
    IN  [err |-> e,
         out |-> IF e = "" THEN StudentKeys(c.student_rf) ELSE {},
         t_out |-> IF e = "" THEN TeacherKeys(c.teacher_rf) ELSE {},
         passes |-> <<pass>>]

\* hasattr(lc, "grad_fn"): every tensor has the attribute, None when detached
GradCheckPasses(term) == TRUE

Term(name, has_grad) == [name |-> name, has_grad |-> has_grad]

\* _compute_loss / _compute_loss_distill with teacher_output: reads
\* teacher_output["forces"] when the student regresses forces
TeacherTargetError(c, tkeys) ==
    IF c.student_rf /\ "forces" \notin tkeys THEN "KeyError" ELSE ""

FwdInit ==
    /\ fconfig \in {c \in FConfigs : FConfigOk(c)}
    /\ fpc = "start"
    /\ teacher_passes = <<>>
    /\ out_keys = {}
    /\ t_out_keys = {}
    /\ k_adv = 0
    /\ terms = <<>>
    /\ summed = <<>>
    /\ ferr = ""

\* no training step is running
FwdIdle ==
    /\ fconfig = [student_rf |-> TRUE, teacher_rf |-> TRUE, n_systems |-> 1, jitter |-> "none",
                  pgd |-> FALSE, adversarial_teacher_grad |-> TRUE, force_reg |-> FALSE,
                  n_adversarial_steps |-> 1]
    /\ fpc = "idle"
    /\ teacher_passes = <<>>
    /\ out_keys = {}
    /\ t_out_keys = {}
    /\ k_adv = 0
    /\ terms = <<>>
    /\ summed = <<>>
    /\ ferr = ""

\* train() line 876: out_batch = self._distill_forward(batch)
MainForward ==
    /\ UNCHANGED notFwd
    /\ fpc = "start"
    /\ LET r == DistillForward(fconfig, FALSE)
       IN  /\ teacher_passes' = teacher_passes \o r.passes
           /\ out_keys' = r.out
           /\ t_out_keys' = r.t_out
           /\ ferr' = r.err
           /\ fpc' = IF r.err = "" THEN "loss" ELSE "failed"
    /\ UNCHANGED <<fconfig, k_adv, terms, summed>>

\* train() line 877: loss = self._compute_loss(out_batch["out"], batch); the
\* energy term, the force term, the check of lines 1219-1221 and the sum
ComputeLoss ==
    /\ UNCHANGED notFwd
    /\ fpc = "loss"
    /\ \E ge, gf \in BOOLEAN :
          LET loss == <<Term("energy", ge)>> \o
                      (IF fconfig.student_rf THEN <<Term("force", gf)>> ELSE <<>>)
              ok == \A k \in 1..Len(loss) : GradCheckPasses(loss[k])
          IN  /\ summed' = IF ok THEN loss ELSE summed
              /\ ferr' = IF ok THEN "" ELSE "AssertionError"
              /\ fpc' = IF ok THEN "distill" ELSE "failed"
    /\ UNCHANGED <<fconfig, teacher_passes, out_keys, t_out_keys, k_adv, terms>>

\* the forward pass on the augmented batch and the terms of a jitter loss
\* (lines 760-776, 819-834), with g the new term's gradient path
AugmentedLoss(g) ==
    LET r == DistillForward(fconfig, FALSE)
        e == IF r.err # "" THEN r.err ELSE TeacherTargetError(fconfig, r.t_out)
    IN  /\ teacher_passes' = teacher_passes \o r.passes
        /\ out_keys' = r.out
        /\ t_out_keys' = r.t_out
        /\ ferr' = e
        /\ terms' = IF e = "" THEN terms \o <<Term("jitter", g)>> ELSE terms
        /\ fpc' = IF e = "" THEN "sum" ELSE "failed"

\* train() lines 879-883 for a feature loss or _random_jitter_distill_loss
DistillTerm ==
    /\ UNCHANGED notFwd
    /\ fpc = "distill"
    /\ fconfig.jitter # "adversarial"
    /\ \E g \in BOOLEAN :
          IF fconfig.jitter = "none"
          THEN /\ terms' = terms \o <<Term("node2node", g)>>
               /\ fpc' = "sum"
               /\ UNCHANGED <<teacher_passes, out_keys, t_out_keys, ferr>>
          ELSE AugmentedLoss(g)
    /\ UNCHANGED <<fconfig, k_adv, summed>>

\* _adversarial_jitter_distill_loss, lines 754-758: enter the search
SearchEnter ==
    /\ UNCHANGED notFwd
    /\ fpc = "distill"
    /\ fconfig.jitter = "adversarial"
    /\ fpc' = "adv_loop"
    /\ k_adv' = 0
    /\ UNCHANGED <<fconfig, teacher_passes, out_keys, t_out_keys, terms, summed, ferr>>

\* one inner iteration of _adversarial_batch (lines 638-654) or of
\* _adversarial_pgd_batch (lines 674-745)
SearchStep ==
    /\ UNCHANGED notFwd
    /\ fpc = "adv_loop"
    /\ k_adv < fconfig.n_adversarial_steps
    /\ LET tg == IF fconfig.pgd THEN fconfig.adversarial_teacher_grad ELSE FALSE
           r == DistillForward(fconfig, tg)
           \* line 702: _, t_out_forces = self.teacher(batch_list_noise), outside no_grad
           direct == IF fconfig.pgd /\ fconfig.force_reg /\ ~fconfig.adversarial_teacher_grad
                     THEN <<[site |-> "force_reg", no_grad |-> FALSE, requested |-> FALSE]>>
                     ELSE <<>>
           e1 == IF r.err # "" THEN r.err ELSE TeacherTargetError(fconfig, r.t_out)
           e2 == IF e1 # "" THEN e1
                 ELSE IF fconfig.pgd /\ fconfig.force_reg
                      THEN IF ~fconfig.adversarial_teacher_grad
                           THEN (IF UnpackTwoOk(NetReturn(fconfig.teacher_rf).second, fconfig.n_systems)
                                 THEN "" ELSE "ValueError")
                           ELSE (IF "forces" \in r.t_out THEN "" ELSE "KeyError")
                      ELSE ""
       IN  /\ teacher_passes' = teacher_passes \o r.passes \o (IF e1 = "" THEN direct ELSE <<>>)
           /\ out_keys' = r.out
           /\ t_out_keys' = r.t_out
           /\ ferr' = e2
           /\ fpc' = IF e2 = "" THEN "adv_loop" ELSE "failed"
           /\ k_adv' = IF e2 = "" THEN k_adv + 1 ELSE k_adv
    /\ UNCHANGED <<fconfig, terms, summed>>

\* the end of the search (lines 655, 747-751) and lines 759-776
SearchFinish ==
    /\ UNCHANGED notFwd
    /\ fpc = "adv_loop"
    /\ k_adv = fconfig.n_adversarial_steps
    /\ IF ~fconfig.pgd /\ fconfig.n_adversarial_steps = 0
       THEN \* return_batch is bound only inside the loop
            /\ ferr' = "UnboundLocalError"
            /\ fpc' = "failed"
            /\ UNCHANGED <<teacher_passes, out_keys, t_out_keys, terms>>
       ELSE \E g \in BOOLEAN : AugmentedLoss(g)
    /\ UNCHANGED <<fconfig, k_adv, summed>>

\* train() line 884: loss += sum(distill_loss)
SumLoss ==
    /\ UNCHANGED notFwd
    /\ fpc = "sum"
    /\ summed' = summed \o terms
    /\ fpc' = "done"
    /\ UNCHANGED <<fconfig, teacher_passes, out_keys, t_out_keys, k_adv, terms, ferr>>

FwdNext == MainForward \/ ComputeLoss \/ DistillTerm \/ SearchEnter \/ SearchStep
           \/ SearchFinish \/ SumLoss

(***************************************************************************)
(* Properties of the forward passes and the loss summation.                *)
(***************************************************************************)
Passes(site) == {k \in 1..Len(teacher_passes) : teacher_passes[k].site = site}

ForceRegSearch == fconfig.jitter = "adversarial" /\ fconfig.pgd /\ fconfig.force_reg
                  /\ ~fconfig.adversarial_teacher_grad

\* C5 (as claimed): every teacher forward pass runs without gradient tracking
\* unless teacher-gradient mode was requested for it, also inside the PGD
\* search with adversarial_teacher_grad False and force regularization on.
C5_NoTeacherGradUnlessRequested ==
    \A k \in 1..Len(teacher_passes) :
        ~teacher_passes[k].requested => teacher_passes[k].no_grad

\* C5 (amended): every teacher pass made by _distill_forward runs without
\* gradient tracking exactly when teacher-gradient mode was not requested; the
\* only teacher passes that track gradients without the mode being requested
\* are the direct teacher calls of the PGD search with force regularization
\* on and adversarial_teacher_grad False, one in every inner step.
C5_TeacherGradOnlyRequestedOrForceReg ==
    /\ \A k \in Passes("distill_forward") :
           teacher_passes[k].no_grad <=> ~teacher_passes[k].requested
    /\ \A k \in 1..Len(teacher_passes) :
           (~teacher_passes[k].no_grad /\ ~teacher_passes[k].requested) =>
               (teacher_passes[k].site = "force_reg" /\ ForceRegSearch)
    /\ ferr = "" =>
           Cardinality(Passes("force_reg")) = (IF ForceRegSearch THEN k_adv ELSE 0)

\* a finished step whose PGD search ran two inner steps with force
\* regularization and without teacher-gradient mode
C5_Witness ==
    /\ fpc = "done"
    /\ ForceRegSearch
    /\ k_adv = 2
    /\ Cardinality(Passes("force_reg")) = 2
    /\ \A k \in Passes("distill_forward") : teacher_passes[k].no_grad

\* C6 (as claimed): for every combination of the two regress_forces settings
\* _distill_forward returns the student keys node_feature, n2e_feature,
\* vector_feature, energy and the teacher keys node_feature, e2n_feature,
\* vector_feature, energy, each with 'forces' exactly when that network
\* regresses forces, and no combination ends in an error.
C6_ForwardKeysForEveryCombination ==
    (fpc \in {"loss", "failed"} /\ summed = <<>>) =>
        /\ ferr = ""
        /\ out_keys = {"node_feature", "n2e_feature", "vector_feature", "energy"}
                      \cup (IF fconfig.student_rf THEN {"forces"} ELSE {})
        /\ t_out_keys = {"node_feature", "e2n_feature", "vector_feature", "energy"}
                        \cup (IF fconfig.teacher_rf THEN {"forces"} ELSE {})

\* C10 (as claimed): every term summed into the training loss was checked to
\* carry a gradient path, and a term without one raises instead of being summed.
C10_SummedTermsCarryGradient ==
    \A k \in 1..Len(summed) : summed[k].has_grad

(***************************************************************************)
(* load_teacher (lines 291-312) and the wrapping of the teacher in         *)
(* __init__ (lines 146-155).  A key is the sequence of its characters.     *)
(***************************************************************************)
MaxDepth == 3

\* "module." : the prefix one wrapper (OCPDataParallel or
\* OCPDistributedDataParallel) puts before every key of the wrapped module
ModulePrefix == <<"m", "o", "d", "u", "l", "e", ".">>

\* the keys of the teacher model's own state dict, before any wrapping
BaseKeys == { <<"e", "n", "c", ".", "w">>, <<"b">> }

RECURSIVE Wrapped(_, _)
Wrapped(k, d) == IF d = 0 THEN k ELSE ModulePrefix \o Wrapped(k, d - 1)

\* str.split(".")
RECURSIVE Split(_)
Split(s) ==
    IF \A j \in 1..Len(s) : s[j] # "."
    THEN <<s>>
    ELSE LET p == CHOOSE j \in 1..Len(s) : s[j] = "." /\ \A m \in 1..(j - 1) : s[m] # "."
         IN  <<SubSeq(s, 1, p - 1)>> \o Split(SubSeq(s, p + 1, Len(s)))

\* k[7:]
Strip7(k) == SubSeq(k, 8, Len(k))

\* f"module.{k}"
AddModule(k) == ModulePrefix \o k

\* the wrappers around self.teacher: OCPDataParallel always, and
\* OCPDistributedDataParallel when distributed and not noddp
WrapDepth(initialized, noddp) == IF initialized /\ ~noddp THEN 2 ELSE 1

\* the keys self.teacher.load_state_dict (strict) accepts
TeacherStateKeys(initialized, noddp) ==
    {Wrapped(b, WrapDepth(initialized, noddp)) : b \in BaseKeys}

\* the checkpoints: an ordered state dict, each key saved under some depth
\* of wrapping
Checkpoints ==
    {<<Wrapped(b1, d1), Wrapped(b2, d2)>> :
        <<b1, b2, d1, d2>> \in {q \in BaseKeys \X BaseKeys \X (0..MaxDepth) \X (0..MaxDepth) :
                                 q[1] # q[2]}}

LConfigs == [initialized : BOOLEAN, noddp : BOOLEAN, state_dict : Checkpoints]

\* first_key.split(".")[1] raises IndexError
SecondPartMissing(first_key) == Len(Split(first_key)) < 2

SecondPartIsModule(first_key) == Split(first_key)[2] = <<"m", "o", "d", "u", "l", "e">>

\* the dict load_teacher hands to load_state_dict, as the set of its keys
\* (noddp is not asked in the elif)
RenamedKeys(c) ==
    LET first_key == c.state_dict[1]
        keys == {c.state_dict[j] : j \in 1..Len(c.state_dict)}
    IN  IF (~c.initialized \/ c.noddp) /\ SecondPartIsModule(first_key)
        THEN {Strip7(k) : k \in keys}
        ELSE IF c.initialized /\ ~SecondPartIsModule(first_key)
        THEN {AddModule(k) : k \in keys}
        ELSE keys

LoadInit ==
    /\ lconfig \in LConfigs
    /\ lpc = "start"
    /\ handed_keys = {}
    /\ lerr = ""

LoadIdle ==
    /\ lconfig = [initialized |-> FALSE, noddp |-> FALSE, state_dict |-> <<>>]
    /\ lpc = "idle"
    /\ handed_keys = {}
    /\ lerr = ""

LoadTeacher ==
    /\ lpc = "start"
    /\ IF SecondPartMissing(lconfig.state_dict[1])
       THEN /\ lpc' = "failed"
            /\ lerr' = "IndexError"
            /\ handed_keys' = handed_keys
       ELSE /\ handed_keys' = RenamedKeys(lconfig)
            /\ IF handed_keys' = TeacherStateKeys(lconfig.initialized, lconfig.noddp)
               THEN lpc' = "loaded" /\ lerr' = ""
               ELSE lpc' = "failed" /\ lerr' = "RuntimeError"
    /\ UNCHANGED lconfig
    /\ UNCHANGED notLoad

LoadNext == LoadTeacher

(***************************************************************************)
(* Properties of load_teacher.                                             *)
(***************************************************************************)
\* every key of the checkpoint is saved under d wrappers
SavedUnder(d) ==
    \A j \in 1..Len(lconfig.state_dict) :
        \E b \in BaseKeys : lconfig.state_dict[j] = Wrapped(b, d)

\* C11: for every combination of distributed initialised, noddp and key
\* naming of the checkpoint, a checkpoint in the non-distributed (one
\* "module.") or the distributed (two) convention is handed to the teacher
\* under exactly the prefix of the teacher as wrapped and loads, and a
\* checkpoint in neither convention fails with an error.
C11_KeysMatchTeacherWrapping ==
    lpc \in {"loaded", "failed"} =>
        IF SavedUnder(1) \/ SavedUnder(2)
        THEN /\ lpc = "loaded"
             /\ handed_keys = TeacherStateKeys(lconfig.initialized, lconfig.noddp)
        ELSE lpc = "failed" /\ lerr # ""

(***************************************************************************)
(* _loss_weights_d1M (lines 566-607) and _compute_loss (lines 1092-1224).  *)
(* Weights and losses are exact fractions <<numerator, denominator>> in    *)
(* lowest terms; a force is its one non-zero component.                    *)
(***************************************************************************)
MaxSys == 2
MaxAtoms == 2

\* batch[0].sid > 4999999
SidThreshold == 4999999

\* optim.force_coefficient and optim.energy_coefficient when absent
DefaultForceMult == 30
DefaultAtomwiseForceMult == 1
DefaultEnergyMult == 1

\* distutils.get_world_size() of a single process
WorldSize == 1

Min(S) == CHOOSE x \in S : \A y \in S : x <= y
Max(S) == CHOOSE x \in S : \A y \in S : x >= y

Abs(x) == IF x < 0 THEN -x ELSE x

RECURSIVE Gcd(_, _)
Gcd(a, b) == IF b = 0 THEN a ELSE Gcd(b, a % b)

Rat(n, d) ==
    LET g == Gcd(Abs(n), Abs(d))
        s == IF d < 0 THEN -1 ELSE 1
    IN  <<(s * n) \div g, (s * d) \div g>>

RInt(n) == <<n, 1>>
RAdd(a, b) == Rat(a[1] * b[2] + b[1] * a[2], a[2] * b[2])
RSub(a, b) == Rat(a[1] * b[2] - b[1] * a[2], a[2] * b[2])
RMul(a, b) == Rat(a[1] * b[1], a[2] * b[2])
RDiv(a, b) == Rat(a[1] * b[2], a[2] * b[1])
RAbs(a) == <<Abs(a[1]), a[2]>>

RECURSIVE RSum(_)
RSum(s) == IF s = <<>> THEN RInt(0) ELSE RAdd(Head(s), RSum(Tail(s)))

RECURSIVE ISqrtFrom(_, _)
ISqrtFrom(n, k) == IF k * k >= n THEN k ELSE ISqrtFrom(n, k + 1)

IsSquare(n) == ISqrtFrom(n, 0) * ISqrtFrom(n, 0) = n

\* the square root of a fraction that has one
RSqrt(q) ==
    IF IsSquare(q[1]) /\ IsSquare(q[2])
    THEN <<ISqrtFrom(q[1], 0), ISqrtFrom(q[2], 0)>>
    ELSE CHOOSE x \in {} : TRUE

RECURSIVE Concat(_)
Concat(ss) == IF ss = <<>> THEN <<>> ELSE Head(ss) \o Concat(Tail(ss))

\* torch.repeat_interleave(vals, counts)
RepeatInterleave(vals, counts) ==
    Concat([k \in 1..Len(vals) |-> [m \in 1..counts[k] |-> vals[k]]])

\* a system of a sub-batch: its atom count and its sid, on either side of
\* the threshold
SystemsW == [natoms : 1..MaxAtoms, sid : {SidThreshold, SidThreshold + 1}]

\* the batch lists: one sub-batch, or two of which the second holds one system
BatchLists ==
    {<<b>> : b \in SeqsUpTo(SystemsW, MaxSys)}
    \cup {<<b, <<y>>>> : <<b, y>> \in SeqsUpTo(SystemsW, MaxSys) \X SystemsW}

\* config["distillation"]["loss_weighting_synthetic"]: <<>> when absent
RatiosW == {<<>>, <<RInt(0)>>, <<Rat(1, 2)>>, <<RInt(3)>>}

\* config["task"]["tag_specific_weights"], and with it the branch of the
\* force loss: train_on_free_atoms and an atomwise loss_force matter only
\* without tag weights
ForceConfigs ==
    {[tag_specific_weights |-> t, train_on_free_atoms |-> f, atomwise |-> a] :
        <<t, f, a>> \in {<< <<2, 1, 3>>, FALSE, FALSE >>, << <<1, 1>>, FALSE, FALSE >>,
                         << <<>>, FALSE, FALSE >>, << <<>>, TRUE, FALSE >>,
                         << <<>>, TRUE, TRUE >>}}

\* the distance of every predicted force from its target
ErrValues == {0, 2}

\* config["optim"]["loss_energy"] and ["loss_force"], the criteria that
\* self.loss_fn["energy"] and self.loss_fn["force"] compute
Criteria == {"mae", "mse"}

\* the criteria are read by lines 1098 and 1100 only: they are varied for
\* the plain force loss and left at the default "mae" for the other branches
CriteriaVaried(fc, le, lf) ==
    \/ fc.tag_specific_weights = <<>> /\ ~fc.train_on_free_atoms
    \/ le = "mae" /\ lf = "mae"

WConfigs ==
    {[batch_list |-> x[1], ratio |-> x[2], force |-> x[3], err |-> x[4],
      loss_energy |-> x[5], loss_force |-> x[6]] :
        x \in {y \in BatchLists \X RatiosW \X ForceConfigs \X ErrValues \X Criteria \X Criteria :
                  CriteriaVaried(y[3], y[5], y[6])}}

\* torch.cat([batch.natoms for batch in batch_list])
NAtomsOf(batch_list) == LET s == Concat(batch_list) IN [k \in 1..Len(s) |-> s[k].natoms]

NAtomsTotal(batch_list) == RSum([k \in 1..Len(NAtomsOf(batch_list)) |-> RInt(NAtomsOf(batch_list)[k])])[1]

\* batch.batch: for every atom of one sub-batch the index of its system
BatchIndex(b) == RepeatInterleave([k \in 1..Len(b) |-> k], [k \in 1..Len(b) |-> b[k].natoms])

\* the inputs of _compute_loss: tags and the fixed flag by position in the
\* batch list, targets 1, and predictions err away from them
TagOf(j) == j % 3
FixedOf(j) == j % 2
ForceTargets(c) == [j \in 1..NAtomsTotal(c.batch_list) |-> RInt(1)]
ForcesOut(c) == [j \in 1..NAtomsTotal(c.batch_list) |-> RInt(1 + c.err)]
EnergyTargets(c) == [k \in 1..Len(Concat(c.batch_list)) |-> RInt(-k)]
EnergiesOut(c) == [k \in 1..Len(Concat(c.batch_list)) |-> RInt(c.err - k)]

IsSynth(sys) == sys.sid > SidThreshold

\* batch_ratio_synth: the mean of the mask over batch[0]
BatchRatioSynth(b) == Rat(Cardinality({k \in 1..Len(b) : IsSynth(b[k])}), Len(b))

WDftUnnormalised(ratio, r) == RDiv(RInt(1), RAdd(RInt(1), RMul(ratio, r)))

WDft(ratio, r) == RDiv(RInt(1), RAdd(RSub(RInt(1), r), RMul(ratio, r)))

WSynth(ratio, r) == RMul(ratio, WDft(ratio, r))

\* weights_per_sample, over the systems of batch[0]
WeightsPerSample(c) ==
    LET b == c.batch_list[1]
        r == BatchRatioSynth(b)
    IN  IF c.ratio = <<>>
        THEN [k \in 1..Len(b) |-> RInt(1)]
        ELSE [k \in 1..Len(b) |->
                 IF IsSynth(b[k]) THEN WSynth(c.ratio[1], r) ELSE WDft(c.ratio[1], r)]

\* weights_per_node, over the atoms of batch[0]
WeightsPerNode(c) ==
    LET b == c.batch_list[1]
        r == BatchRatioSynth(b)
        synth_idx == {k \in 1..Len(b) : IsSynth(b[k])}
        node == BatchIndex(b)
    IN  IF c.ratio = <<>>
        THEN [j \in 1..Len(node) |-> RInt(1)]
        ELSE [j \in 1..Len(node) |->
                 IF node[j] \in synth_idx THEN WSynth(c.ratio[1], r) ELSE WDft(c.ratio[1], r)]

\* self.loss_fn[...] == "mse" (lines 1098 and 1100): loss_fn holds the
\* criteria as the callables of lines 1120 and 1216, and a callable is not
\* equal to a string, whatever it computes
LossFnEquals(criterion, name) == FALSE

\* torch.sqrt(w) when line 1098 or 1100 finds its condition true
SqrtIf(cond, w) == IF cond THEN [j \in 1..Len(w) |-> RSqrt(w[j])] ELSE w

\* x left as it is
Unscaled(x, w) == x

\* x *= w for x of n rows: w of one row is broadcast, any other length
\* but n is a shape error (<<>> here)
CanScale(x, w) == Len(w) = Len(x) \/ Len(w) = 1

Scaled(x, w) == [j \in 1..Len(x) |-> RMul(x[j], IF Len(w) = 1 THEN w[1] ELSE w[j])]

\* the weight of an atom's tag
TagWeight(tw, j) == tw[TagOf(j) + 1]

\* the force loss of the tag_specific_weights branch
TagForceLoss(tw, out, target) ==
    LET unnormalized == RSum([j \in 1..Len(out) |->
                                 RMul(RAbs(RSub(out[j], target[j])), RInt(TagWeight(tw, j)))])
        normalizer == RMul(RInt(3), RSum([j \in 1..Len(out) |-> RInt(TagWeight(tw, j))]))
    IN  RMul(unnormalized, RDiv(RInt(WorldSize), normalizer))

\* the rows loss_fn["force"] sees in the other branch
FreeAtoms(n) == {j \in 1..n : FixedOf(j) = 0}

WeightInit ==
    /\ wconfig \in WConfigs
    /\ wpc = "start"
    /\ weight_per_node = <<>>
    /\ weight_per_sample = <<>>
    /\ out_energy = EnergiesOut(wconfig)
    /\ out_forces = ForcesOut(wconfig)
    /\ energy_target = <<>>
    /\ force_target = <<>>
    /\ loss_terms = <<>>
    /\ werr = ""

WeightIdle ==
    /\ wconfig = [batch_list |-> <<>>, ratio |-> <<>>, force |-> <<>>, err |-> 0,
                  loss_energy |-> "mae", loss_force |-> "mae"]
    /\ wpc = "idle"
    /\ weight_per_node = <<>>
    /\ weight_per_sample = <<>>
    /\ out_energy = <<>>
    /\ out_forces = <<>>
    /\ energy_target = <<>>
    /\ force_target = <<>>
    /\ loss_terms = <<>>
    /\ werr = ""

\* lines 1096-1101: self._loss_weights_d1M(batch_list)
LossWeights ==
    /\ wpc = "start"
    /\ IF wconfig.ratio # <<>> /\ ~(wconfig.ratio[1][1] > 0)
       THEN /\ wpc' = "failed"
            /\ werr' = "AssertionError"
            /\ UNCHANGED <<weight_per_node, weight_per_sample>>
       ELSE /\ wpc' = "energy"
            /\ weight_per_node' = SqrtIf(LossFnEquals(wconfig.loss_energy, "mse"),
                                         WeightsPerNode(wconfig))
            /\ weight_per_sample' = SqrtIf(LossFnEquals(wconfig.loss_force, "mse"),
                                           WeightsPerSample(wconfig))
            /\ werr' = werr
    /\ UNCHANGED <<wconfig, out_energy, out_forces, energy_target, force_target, loss_terms>>
    /\ UNCHANGED notWeight

\* lines 1103-1121: the energy loss
EnergyLoss ==
    /\ wpc = "energy"
    /\ IF CanScale(out_energy, weight_per_sample)
       THEN /\ out_energy' = Scaled(out_energy, weight_per_sample)
            /\ energy_target' = Scaled(EnergyTargets(wconfig), weight_per_sample)
            /\ loss_terms' = <<[term |-> "energy", fn |-> "loss_fn", mult |-> DefaultEnergyMult,
                          out |-> out_energy', target |-> energy_target']>>
            /\ wpc' = "forces"
            /\ werr' = werr
       ELSE /\ wpc' = "failed"
            /\ werr' = "RuntimeError"
            /\ UNCHANGED <<out_energy, energy_target, loss_terms>>
    /\ UNCHANGED <<wconfig, weight_per_node, weight_per_sample, out_forces, force_target>>
    /\ UNCHANGED notWeight

\* lines 1123-1224: the force loss, the sanity check and the sum
ForceLoss ==
    /\ wpc = "forces"
    /\ LET tw == wconfig.force.tag_specific_weights
           n == Len(out_forces)
           rows == IF wconfig.force.train_on_free_atoms THEN FreeAtoms(n) ELSE 1..n
       IN  IF ~CanScale(out_forces, weight_per_node)
           THEN /\ wpc' = "failed"
                /\ werr' = "RuntimeError"
                /\ UNCHANGED <<out_forces, force_target, loss_terms>>
           ELSE /\ out_forces' = Scaled(out_forces, weight_per_node)
                /\ force_target' = Scaled(ForceTargets(wconfig), weight_per_node)
                /\ IF tw # <<>> /\ Len(tw) # 3
                   THEN wpc' = "failed" /\ werr' = "AssertionError" /\ loss_terms' = loss_terms
                   ELSE /\ wpc' = "done"
                        /\ werr' = werr
                        /\ loss_terms' = Append(loss_terms,
                              IF tw # <<>>
                              THEN [term |-> "forces", fn |-> "tag",
                                    value |-> TagForceLoss(tw, out_forces', force_target')]
                              ELSE [term |-> "forces", fn |-> "loss_fn",
                                    mult |-> IF wconfig.force.atomwise
                                             THEN DefaultAtomwiseForceMult
                                             ELSE DefaultForceMult,
                                    rows |-> rows,
                                    out |-> out_forces', target |-> force_target'])
    /\ UNCHANGED <<wconfig, weight_per_node, weight_per_sample, out_energy, energy_target>>
    /\ UNCHANGED notWeight

WeightNext == LossWeights \/ EnergyLoss \/ ForceLoss

(***************************************************************************)
(* Properties of the loss weights and the force loss.                      *)
(***************************************************************************)
\* the weights were computed from a configured ratio
Weighted == wpc \in {"energy", "forces", "done"} /\ wconfig.ratio # <<>>

\* the synthetic fraction of the sub-batch the weights are computed from
SynthFraction ==
    LET b == wconfig.batch_list[1]
    IN  Rat(Cardinality({k \in 1..Len(b) : b[k].sid >= 5000000}), Len(b))

\* C12: for every ratio rho > 0 and every synthetic fraction r in [0, 1] the
\* per-system weights are w_real = 1 / (1 - r + rho * r) on systems with
\* sid < 5,000,000 and w_synth = rho * w_real on the others, so that
\* w_real * (1 - r) + w_synth * r = 1.
C12_WeightsNormalised ==
    Weighted =>
        LET b == wconfig.batch_list[1]
            rho == wconfig.ratio[1]
            r == SynthFraction
            w_real == RDiv(RInt(1), RAdd(RSub(RInt(1), r), RMul(rho, r)))
            w_synth == RMul(rho, w_real)
        IN  /\ rho[1] > 0
            /\ RAdd(RMul(w_real, RSub(RInt(1), r)), RMul(w_synth, r)) = RInt(1)
            /\ Len(weight_per_sample) = Len(b)
            /\ \A k \in 1..Len(b) :
                   weight_per_sample[k] = IF b[k].sid >= 5000000 THEN w_synth ELSE w_real

\* a weighted sub-batch that mixes real and synthetic systems
C12_Witness ==
    /\ Weighted
    /\ SynthFraction = Rat(1, 2)
    /\ wconfig.ratio[1] = RInt(3)
    /\ weight_per_sample = <<Rat(1, 2), Rat(3, 2)>>

\* the weight of the system every atom of the batch list belongs to, where
\* weights are those of the system's provenance
SystemWeightPerAtom ==
    LET systems == Concat(wconfig.batch_list)
        r == SynthFraction
        w == [k \in 1..Len(systems) |->
                 IF wconfig.ratio = <<>> THEN RInt(1)
                 ELSE IF IsSynth(systems[k]) THEN WSynth(wconfig.ratio[1], r)
                 ELSE WDft(wconfig.ratio[1], r)]
    IN  RepeatInterleave(w, NAtomsOf(wconfig.batch_list))

\* C13: for every batch list the per-atom weight vector has one entry per
\* atom of the whole batch list (its length is the sum of the atom counts
\* over all sub-batches) and every atom's entry is the weight of its system.
C13_WeightPerAtomOfBatchList ==
    wpc \in {"energy", "forces", "done"} =>
        /\ Len(weight_per_node) = NAtomsTotal(wconfig.batch_list)
        /\ weight_per_node = SystemWeightPerAtom

\* the tag-weighted absolute error of the predictions and targets as they
\* came in, without provenance weights
TagLossUnweighted ==
    TagForceLoss(wconfig.force.tag_specific_weights, ForcesOut(wconfig), ForceTargets(wconfig))

\* C14: with tag_specific_weights configured the tag weighting overrides the
\* provenance weighting: the force loss is the tag-weighted absolute error
\* of the unweighted predictions and targets, whatever the ratio and the mix
\* of real and synthetic systems.
C14_TagWeightsOverrideProvenance ==
    (wpc = "done" /\ Len(wconfig.force.tag_specific_weights) = 3) =>
        loss_terms[2].fn = "tag" /\ loss_terms[2].value = TagLossUnweighted

\* C14 (amended): with tag_specific_weights configured the tag weighting is
\* applied on top of the provenance weighting: the force loss is
\* sum_j w_j * |out_j - target_j| * tagw_j / (3 * sum_j tagw_j) with w_j the
\* provenance weight _loss_weights_d1M gave atom j, and it is the
\* tag-weighted error of the unweighted values when no ratio is configured.
C14_TagWeightsOnTopOfProvenance ==
    (wpc = "done" /\ Len(wconfig.force.tag_specific_weights) = 3) =>
        LET tw == wconfig.force.tag_specific_weights
            n == NAtomsTotal(wconfig.batch_list)
            w == [j \in 1..n |-> IF Len(weight_per_node) = 1 THEN weight_per_node[1]
                                  ELSE weight_per_node[j]]
            weighted_error == RSum([j \in 1..n |->
                                  RMul(RMul(w[j], RInt(wconfig.err)), RInt(tw[TagOf(j) + 1]))])
            tag_sum == RSum([j \in 1..n |-> RInt(tw[TagOf(j) + 1])])
        IN  /\ loss_terms[2].fn = "tag"
            /\ RMul(loss_terms[2].value, RMul(RInt(3), tag_sum)) = weighted_error
            /\ wconfig.ratio = <<>> => loss_terms[2].value = TagLossUnweighted

\* a tag-weighted force loss that the provenance weights have changed
C14_Witness ==
    /\ wpc = "done"
    /\ Len(wconfig.force.tag_specific_weights) = 3
    /\ wconfig.ratio # <<>>
    /\ wconfig.err # 0
    /\ \E j, k \in 1..Len(weight_per_node) : weight_per_node[j] # weight_per_node[k]
    /\ loss_terms[2].value # TagLossUnweighted

(***************************************************************************)
(* The perturbation generators: _random_jitter_batch (lines 778-814),      *)
(* _adversarial_batch (620-655) and _adversarial_pgd_batch (657-751).      *)
(* A vector is a triple of exact fractions; the inputs are chosen so that  *)
(* every norm the code takes is a fraction too.                            *)
(***************************************************************************)
VecR(x, y, z) == <<RInt(x), RInt(y), RInt(z)>>

VZero == VecR(0, 0, 0)

\* a vector with an inf or nan component
NonFinite == <<<<0, 0>>, <<0, 0>>, <<0, 0>>>>

IsFinite(v) == v[1][2] # 0

VAdd(a, b) ==
    IF IsFinite(a) /\ IsFinite(b)
    THEN <<RAdd(a[1], b[1]), RAdd(a[2], b[2]), RAdd(a[3], b[3])>>
    ELSE NonFinite

VSub(a, b) ==
    IF IsFinite(a) /\ IsFinite(b)
    THEN <<RSub(a[1], b[1]), RSub(a[2], b[2]), RSub(a[3], b[3])>>
    ELSE NonFinite

VScale(c, v) == IF IsFinite(v) THEN <<RMul(c, v[1]), RMul(c, v[2]), RMul(c, v[3])>> ELSE NonFinite

VDot(a, b) == RAdd(RMul(a[1], b[1]), RAdd(RMul(a[2], b[2]), RMul(a[3], b[3])))

HasNorm(v) == IsSquare(VDot(v, v)[1]) /\ IsSquare(VDot(v, v)[2])

\* torch.linalg.norm(v, dim=1) of one row
VNorm(v) == RSqrt(VDot(v, v))

RLess(a, b) == a[1] * b[2] < b[1] * a[2]

\* F.normalize of one row: v / max(norm, eps), the zero row stays zero
Normalize(v) == IF v = VZero THEN VZero ELSE VScale(RDiv(RInt(1), VNorm(v)), v)

\* vector_projection(vec1, vec2) of one row
VectorProjection(vec1, vec2) ==
    LET vec2_normalized == Normalize(vec2)
        coef == VDot(vec1, vec2_normalized)
    IN  VScale(coef, vec2_normalized)

\* the atoms: a position and a ground-truth force
AtomA == [pos |-> VecR(1, 0, 0), force |-> VecR(3, 4, 0)]
AtomB == [pos |-> VecR(0, 2, 0), force |-> VZero]
AtomC == [pos |-> VecR(0, 0, -1), force |-> VecR(0, 0, 12)]

\* the batch lists handed to a generator
BatchListsG == { << <<AtomA>> >>, << <<AtomC, AtomB>> >>, << <<AtomB>>, <<AtomA, AtomC>> >> }

\* what a Gaussian draw with a positive standard deviation can give, and
\* what autograd can leave in delta.grad
NoiseSeq == <<VecR(3, 4, 0), VecR(0, 0, 12), VecR(3, 4, 12)>>
GradSeq == <<VZero, VecR(3, 4, 0), VecR(-6, -8, 0)>>

\* the ratio of its moment estimates by which opt.step() of Adam moves a
\* coordinate, lr times
AdamSeq == <<VZero, VecR(1, -1, 0), VecR(-1, 1, 1)>>

\* one draw per atom out of seq, the atoms of the list taking turns
Field(seq, f, batch_list) ==
    [j \in 1..Len(batch_list) |->
        [m \in 1..Len(batch_list[j]) |-> seq[((f + j + m) % Len(seq)) + 1]]]

ZerosLike(batch_list) ==
    [j \in 1..Len(batch_list) |-> [m \in 1..Len(batch_list[j]) |-> VZero]]

\* self.transform(batch.clone(), delta): AddNoise on a copy of the sub-batch
ApplyNoise(batch, delta) ==
    [m \in 1..Len(batch) |-> [pos |-> VAdd(batch[m].pos, delta[m]), force |-> batch[m].force]]

ApplyNoiseList(batch_list, deltas) ==
    [j \in 1..Len(batch_list) |-> ApplyNoise(batch_list[j], deltas[j])]

\* the learning rates, radii and standard deviations
LrValues == {RInt(0), RInt(1), Rat(1, 2)}
AlphaValues == {RInt(2), RInt(10)}
SdValues == {0, 1}

RandomModes == {"none", "force_proj", "proj_on_force", "sample_from_force"}
PgdModes == {"ball", "force_proj", "sphere"}
ForceProps == {"prop", "inv_prop", "fixed"}

\* self.random_fixed_length: adversarial_alpha when random_fixed_length is
\* configured, else False (<<>> here)
RandomFixedLength(flag, alpha) == IF flag THEN <<alpha>> ELSE <<>>

\* bool(self.random_fixed_length)
Truthy(fl) == fl # <<>> /\ fl[1] # RInt(0)

GDefaults ==
    [generator |-> "random", batch_list |-> <<>>, n_adversarial_steps |-> 0,
     adversarial_lr |-> RInt(0), adversarial_alpha |-> RInt(2), adversarial_init_sd |-> 0,
     adversarial_pgd_mode |-> "ball", adversarial_force_prop |-> "prop",
     random_std |-> 0, random_mode |-> "none", random_fixed_length |-> <<>>]

GRandom ==
    {[GDefaults EXCEPT !.batch_list = bl, !.random_std = sd, !.random_mode = mode,
                       !.random_fixed_length = fl] :
        <<bl, sd, mode, fl>> \in BatchListsG \X SdValues \X RandomModes
                                 \X {<<>>, <<RInt(0)>>, <<RInt(2)>>}}

GAdversarial ==
    {[GDefaults EXCEPT !.generator = "adversarial", !.batch_list = bl,
                       !.n_adversarial_steps = n, !.adversarial_lr = lr,
                       !.adversarial_init_sd = sd] :
        <<bl, n, lr, sd>> \in BatchListsG \X (0..MaxAdvSteps) \X LrValues \X SdValues}

GPgd ==
    {[GDefaults EXCEPT !.generator = "pgd", !.batch_list = bl, !.n_adversarial_steps = n,
                       !.adversarial_lr = lr, !.adversarial_alpha = al,
                       !.adversarial_init_sd = sd, !.adversarial_pgd_mode = mode[1],
                       !.adversarial_force_prop = mode[2]] :
        <<bl, n, lr, al, sd, mode>> \in
            BatchListsG \X (0..MaxAdvSteps) \X (LrValues \ {RInt(0)}) \X AlphaValues \X SdValues
            \X ({<<"ball", "prop">>, <<"sphere", "prop">>} \cup ({"force_proj"} \X ForceProps))}

GConfigs == GRandom \cup GAdversarial \cup GPgd

\* the rows of one sub-batch, one function applied per atom
PerAtom(batch_list, Op(_, _)) ==
    [j \in 1..Len(batch_list) |-> [m \in 1..Len(batch_list[j]) |-> Op(j, m)]]

\* torch.normal(batch.force, std): the mean plus the draw
SampleFromForceZeroMean(force, noise) == noise

SampleFromForce(force, noise) == VAdd(force, noise)

\* lines 786-802: the displacement of one atom in _random_jitter_batch
RandomDisplacement(mode, force, noise, noise2) ==
    IF mode = "force_proj" THEN VSub(noise, VectorProjection(noise, force))
    ELSE IF mode = "proj_on_force" THEN VectorProjection(noise, force)
    ELSE IF mode = "sample_from_force" THEN SampleFromForce(force, noise2)
    ELSE noise

\* lines 803-809: what is added to the zero delta of one atom
RandomDelta(fl, displacement) ==
    IF Truthy(fl) THEN VScale(fl[1], Normalize(displacement)) ELSE displacement

\* opt.step() of optim.Adam(delta_list, lr), one row
AdamStepUnit(delta, lr, ratio) == VSub(delta, ratio)

AdamStepFresh(delta, lr, ratio) == VScale(RSub(RInt(0), lr), ratio)

AdamStep(delta, lr, ratio) == VSub(delta, VScale(lr, ratio))

\* lines 713-721: the increment of the ball mode, one row
BallNoClip(grad, lr, alpha) == VScale(lr, grad)

BallIncrement(grad, lr, alpha) ==
    LET gradient == VScale(lr, grad)
    IN  IF RLess(alpha, VNorm(gradient))
        THEN VScale(alpha, Normalize(gradient))
        ELSE gradient

\* lines 723-741: the increment of the force_proj mode, one row
ForceProjIncrement(grad, force, prop, lr, alpha) ==
    LET proj == VectorProjection(grad, force)
        displacement == VSub(grad, proj)
        force_norm == VNorm(force)
    IN  IF prop = "prop" THEN VScale(RMul(lr, force_norm), Normalize(displacement))
        ELSE IF prop = "inv_prop"
        THEN IF force_norm = RInt(0) THEN NonFinite
             ELSE VScale(RDiv(lr, force_norm), Normalize(displacement))
        ELSE VScale(alpha, Normalize(displacement))

\* lines 743-746: the increment of the sphere mode, one row
SphereIncrement(grad, alpha) == VScale(alpha, Normalize(grad))

PgdIncrement(c, grad, force) ==
    IF c.adversarial_pgd_mode = "ball"
    THEN BallIncrement(grad, c.adversarial_lr, c.adversarial_alpha)
    ELSE IF c.adversarial_pgd_mode = "force_proj"
    THEN ForceProjIncrement(grad, force, c.adversarial_force_prop, c.adversarial_lr,
                            c.adversarial_alpha)
    ELSE SphereIncrement(grad, c.adversarial_alpha)

GenInit ==
    /\ gconfig \in GConfigs
    /\ gpc = "start"
    /\ g_batch_list = gconfig.batch_list
    /\ delta_list = <<>>
    /\ delta_grad = <<>>
    /\ delta_hist = <<>>
    /\ dirs = <<>>
    /\ fwd_deltas = <<>>
    /\ increment = <<>>
    /\ k_iter = 0
    /\ return_batch = <<>>
    /\ returned = <<>>
    /\ gerr = ""

GenIdle ==
    /\ gconfig = GDefaults
    /\ gpc = "idle"
    /\ g_batch_list = <<>>
    /\ delta_list = <<>>
    /\ delta_grad = <<>>
    /\ delta_hist = <<>>
    /\ dirs = <<>>
    /\ fwd_deltas = <<>>
    /\ increment = <<>>
    /\ k_iter = 0
    /\ return_batch = <<>>
    /\ returned = <<>>
    /\ gerr = ""

\* _random_jitter_batch, lines 778-814
RandomJitterBatch ==
    /\ gpc = "start"
    /\ gconfig.generator = "random"
    /\ \E f \in 1..Len(NoiseSeq), f2 \in 1..Len(NoiseSeq) :
        LET bl == g_batch_list
            noise == IF gconfig.random_std > 0 THEN Field(NoiseSeq, f, bl) ELSE ZerosLike(bl)
            noise2 == IF gconfig.random_std > 0 THEN Field(NoiseSeq, f2, bl) ELSE ZerosLike(bl)
            Disp(j, m) == RandomDisplacement(gconfig.random_mode, bl[j][m].force,
                                             noise[j][m], noise2[j][m])
            Delta(j, m) == RandomDelta(gconfig.random_fixed_length, Disp(j, m))
        IN  /\ Truthy(gconfig.random_fixed_length) =>
                   \A j \in 1..Len(bl) : \A m \in 1..Len(bl[j]) : HasNorm(Disp(j, m))
            /\ dirs' = <<PerAtom(bl, Disp)>>
            /\ delta_list' = PerAtom(bl, Delta)
            /\ returned' = ApplyNoiseList(bl, delta_list')
    /\ gpc' = "done"
    /\ UNCHANGED <<gconfig, g_batch_list, delta_grad, delta_hist, fwd_deltas, increment, k_iter,
                   return_batch, gerr>>
    /\ UNCHANGED notGen

\* lines 621-635 and 658-672: the initial displacement of the two searches
GenEnter ==
    /\ gpc = "start"
    /\ gconfig.generator \in {"adversarial", "pgd"}
    /\ \E f \in 1..Len(NoiseSeq) :
        delta_list' = IF gconfig.adversarial_init_sd > 0
                      THEN Field(NoiseSeq, f, g_batch_list)
                      ELSE ZerosLike(g_batch_list)
    /\ delta_hist' = <<delta_list'>>
    /\ gpc' = "loop"
    /\ UNCHANGED <<gconfig, g_batch_list, delta_grad, dirs, fwd_deltas, increment, k_iter,
                   return_batch, returned, gerr>>
    /\ UNCHANGED notGen

\* one iteration of the loop of _adversarial_batch, lines 637-654
AdversarialStep ==
    /\ gpc = "loop"
    /\ gconfig.generator = "adversarial"
    /\ k_iter < gconfig.n_adversarial_steps
    /\ fwd_deltas' = Append(fwd_deltas, delta_list)
    /\ \E f \in 1..Len(AdamSeq) :
        LET ratio == Field(AdamSeq, f, g_batch_list)
            Step(j, m) == AdamStep(delta_list[j][m], gconfig.adversarial_lr, ratio[j][m])
        IN  /\ dirs' = Append(dirs, ratio)
            /\ delta_list' = PerAtom(g_batch_list, Step)
    /\ delta_hist' = Append(delta_hist, delta_list')
    /\ return_batch' = ApplyNoiseList(g_batch_list, delta_list')
    /\ k_iter' = k_iter + 1
    /\ UNCHANGED <<gconfig, g_batch_list, delta_grad, increment, gpc, returned, gerr>>
    /\ UNCHANGED notGen

\* line 655: return_batch is bound only by an iteration of the loop
AdversarialFinish ==
    /\ gpc = "loop"
    /\ gconfig.generator = "adversarial"
    /\ k_iter = gconfig.n_adversarial_steps
    /\ IF return_batch = <<>>
       THEN gpc' = "failed" /\ gerr' = "UnboundLocalError" /\ returned' = returned
       ELSE gpc' = "done" /\ gerr' = gerr /\ returned' = return_batch
    /\ UNCHANGED <<gconfig, g_batch_list, delta_list, delta_grad, delta_hist, dirs, fwd_deltas,
                   increment, k_iter, return_batch>>
    /\ UNCHANGED notGen

\* one iteration of the loop of _adversarial_pgd_batch, lines 673-746:
\* backward adds to delta.grad, which nothing resets
PgdStep ==
    /\ gpc = "loop"
    /\ gconfig.generator = "pgd"
    /\ k_iter < gconfig.n_adversarial_steps
    /\ fwd_deltas' = Append(fwd_deltas, delta_list)
    /\ \E f \in 1..Len(GradSeq) :
        LET g == Field(GradSeq, f, g_batch_list)
            Acc(j, m) == IF delta_grad = <<>> THEN g[j][m] ELSE VAdd(delta_grad[j][m], g[j][m])
        IN  /\ dirs' = Append(dirs, g)
            /\ delta_grad' = PerAtom(g_batch_list, Acc)
    /\ LET Inc(j, m) == PgdIncrement(gconfig, delta_grad'[j][m], g_batch_list[j][m].force)
       IN  increment' = PerAtom(g_batch_list, Inc)
    /\ LET Upd(j, m) == VAdd(delta_list[j][m], increment'[j][m])
       IN  delta_list' = PerAtom(g_batch_list, Upd)
    /\ delta_hist' = Append(delta_hist, delta_list')
    /\ k_iter' = k_iter + 1
    /\ UNCHANGED <<gconfig, g_batch_list, gpc, return_batch, returned, gerr>>
    /\ UNCHANGED notGen

\* lines 747-751
PgdFinish ==
    /\ gpc = "loop"
    /\ gconfig.generator = "pgd"
    /\ k_iter = gconfig.n_adversarial_steps
    /\ returned' = ApplyNoiseList(g_batch_list, delta_list)
    /\ gpc' = "done"
    /\ UNCHANGED <<gconfig, g_batch_list, delta_list, delta_grad, delta_hist, dirs, fwd_deltas,
                   increment, k_iter, return_batch, gerr>>
    /\ UNCHANGED notGen

GenNext == RandomJitterBatch \/ GenEnter \/ AdversarialStep \/ AdversarialFinish
           \/ PgdStep \/ PgdFinish

(***************************************************************************)
(* Properties of the perturbation generators.                              *)
(***************************************************************************)
\* the atoms of the batch list handed in, as <<sub-batch, row>>
AtomsG == UNION {{<<j, m>> : m \in 1..Len(gconfig.batch_list[j])} :
                    j \in 1..Len(gconfig.batch_list)}

\* how far the returned batch list has moved an atom from where it came in
Moved(jm) == VSub(returned[jm[1]][jm[2]].pos, gconfig.batch_list[jm[1]][jm[2]].pos)

ForceG(jm) == gconfig.batch_list[jm[1]][jm[2]].force

RandomDoneStdZero == gpc = "done" /\ gconfig.generator = "random" /\ gconfig.random_std = 0

\* C15 (as claimed): with random_std = 0 the returned positions equal the
\* input positions for every random_mode when no fixed length is requested,
\* and with a fixed length every atom is displaced by exactly that length.
C15_StdZeroLeavesPositions ==
    RandomDoneStdZero =>
        IF gconfig.random_fixed_length = <<>>
        THEN \A jm \in AtomsG : Moved(jm) = VZero
        ELSE \A jm \in AtomsG :
                 VDot(Moved(jm), Moved(jm))
                     = RMul(gconfig.random_fixed_length[1], gconfig.random_fixed_length[1])

\* C15 (amended): with random_std = 0 the modes none, force_proj and
\* proj_on_force leave the positions unchanged, with or without a fixed
\* length (a zero displacement is normalised to zero); sample_from_force
\* displaces every atom by its force, and with a non-zero fixed length L by
\* L along its force (not at all where the force is zero).
C15_StdZeroDisplacement ==
    RandomDoneStdZero =>
        \A jm \in AtomsG :
            IF gconfig.random_mode # "sample_from_force" \/ ForceG(jm) = VZero
            THEN Moved(jm) = VZero
            ELSE IF gconfig.random_fixed_length \in {<<>>, <<RInt(0)>>}
            THEN Moved(jm) = ForceG(jm)
            ELSE /\ VDot(Moved(jm), Moved(jm))
                        = RMul(gconfig.random_fixed_length[1], gconfig.random_fixed_length[1])
                 /\ VScale(VDot(ForceG(jm), ForceG(jm)), Moved(jm))
                        = VScale(VDot(Moved(jm), ForceG(jm)), ForceG(jm))
                 /\ RLess(RInt(0), VDot(Moved(jm), ForceG(jm)))

\* sample_from_force with random_std = 0 and a fixed length has run on a
\* batch list with an atom under force and one without
C15_Witness ==
    /\ RandomDoneStdZero
    /\ gconfig.random_mode = "sample_from_force"
    /\ gconfig.random_fixed_length = <<RInt(2)>>
    /\ \E jm \in AtomsG : Moved(jm) = <<Rat(6, 5), Rat(8, 5), RInt(0)>>
    /\ \E jm \in AtomsG : ForceG(jm) = VZero /\ Moved(jm) = VZero

AdversarialRun == gconfig.generator = "adversarial" /\ gpc \in {"loop", "done", "failed"}

\* C16: with adversarial_init_sd = 0 and adversarial_lr = 0 the displacement
\* of _adversarial_batch stays zero and the returned positions equal the
\* input positions, for every N >= 1 and whatever the gradients are.
C16_ZeroLrZeroSdReturnsInput ==
    (/\ AdversarialRun
     /\ gconfig.adversarial_init_sd = 0
     /\ gconfig.adversarial_lr = RInt(0)
     /\ gconfig.n_adversarial_steps >= 1) =>
        /\ delta_list = ZerosLike(gconfig.batch_list)
        /\ return_batch # <<>> => return_batch = gconfig.batch_list
        /\ gpc # "failed"
        /\ gpc = "done" => returned = gconfig.batch_list

\* the search has returned after two iterations with non-zero Adam ratios
C16_Witness ==
    /\ AdversarialRun
    /\ gpc = "done"
    /\ gconfig.adversarial_init_sd = 0
    /\ gconfig.adversarial_lr = RInt(0)
    /\ gconfig.n_adversarial_steps = 2
    /\ \A k \in 1..2 : \A jm \in AtomsG : dirs[k][jm[1]][jm[2]] # VZero

\* the sum of what Adam moved an atom by over the first n iterations
RECURSIVE SumOfSteps(_, _)
SumOfSteps(jm, n) ==
    IF n = 0 THEN VZero
    ELSE VAdd(SumOfSteps(jm, n - 1), VScale(gconfig.adversarial_lr, dirs[n][jm[1]][jm[2]]))

\* C17: _adversarial_batch accumulates the displacement over all N inner
\* iterations through the optimizer: iteration k perturbs the forward pass
\* with the displacement iteration k - 1 left, and the returned batch is
\* the input displaced by the displacement after the N-th update.
C17_DisplacementAccumulates ==
    AdversarialRun =>
        /\ Len(fwd_deltas) = k_iter /\ Len(delta_hist) = k_iter + 1
        /\ \A k \in 1..k_iter : fwd_deltas[k] = delta_hist[k]
        /\ \A k \in 0..k_iter : \A jm \in AtomsG :
               delta_hist[k + 1][jm[1]][jm[2]]
                   = VSub(delta_hist[1][jm[1]][jm[2]], SumOfSteps(jm, k))
        /\ gpc = "done" =>
               /\ k_iter = gconfig.n_adversarial_steps
               /\ returned = ApplyNoiseList(gconfig.batch_list,
                                            delta_hist[gconfig.n_adversarial_steps + 1])

\* two iterations have both moved every atom, and the result is returned
C17_Witness ==
    /\ AdversarialRun
    /\ gpc = "done"
    /\ gconfig.n_adversarial_steps = 2
    /\ gconfig.adversarial_lr # RInt(0)
    /\ \A jm \in AtomsG :
           /\ delta_hist[2][jm[1]][jm[2]] # delta_hist[1][jm[1]][jm[2]]
           /\ delta_hist[3][jm[1]][jm[2]] # delta_hist[2][jm[1]][jm[2]]
           /\ Moved(jm) = delta_hist[3][jm[1]][jm[2]]
           /\ Moved(jm) # delta_hist[2][jm[1]][jm[2]]

BallStepDone ==
    /\ gconfig.generator = "pgd"
    /\ gconfig.adversarial_pgd_mode = "ball"
    /\ increment # <<>>

\* lr * delta.grad of an atom at the last update
RawIncrement(jm) == VScale(gconfig.adversarial_lr, delta_grad[jm[1]][jm[2]])

NormSq(v) == VDot(v, v)

AlphaSq == RMul(gconfig.adversarial_alpha, gconfig.adversarial_alpha)

\* C18: in ball mode an increment lr * grad of norm above alpha is rescaled
\* to norm exactly alpha in the same direction, an increment within the
\* radius is applied as it is, so the applied increment never exceeds alpha.
C18_BallIncrementClipped ==
    BallStepDone =>
        \A jm \in AtomsG :
            LET inc == increment[jm[1]][jm[2]]
                raw == RawIncrement(jm)
            IN  /\ IF RLess(AlphaSq, NormSq(raw))
                   THEN /\ NormSq(inc) = AlphaSq
                        /\ VScale(NormSq(raw), inc) = VScale(VDot(inc, raw), raw)
                        /\ RLess(RInt(0), VDot(inc, raw))
                   ELSE inc = raw
                /\ ~RLess(AlphaSq, NormSq(inc))
                /\ delta_list[jm[1]][jm[2]]
                       = VAdd(delta_hist[Len(delta_hist) - 1][jm[1]][jm[2]], inc)

\* one update has clipped the increment of one atom and left another's alone
C18_Witness ==
    /\ BallStepDone
    /\ \E jm \in AtomsG : RLess(AlphaSq, NormSq(RawIncrement(jm)))
                          /\ increment[jm[1]][jm[2]] # RawIncrement(jm)
    /\ \E jm \in AtomsG : RawIncrement(jm) # VZero /\ increment[jm[1]][jm[2]] = RawIncrement(jm)

\* C19: each of the three generators returns, for every N >= 0, a batch list
\* of the shape of its input, after exactly N inner iterations, and leaves
\* the positions of the input batch list as they were.
C19_GeneratorsReturnForEveryN ==
    gpc \in {"done", "failed"} =>
        /\ gpc = "done"
        /\ Len(returned) = Len(gconfig.batch_list)
        /\ \A j \in 1..Len(returned) : Len(returned[j]) = Len(gconfig.batch_list[j])
        /\ gconfig.generator # "random" => k_iter = gconfig.n_adversarial_steps
        /\ g_batch_list = gconfig.batch_list

(***************************************************************************)
(* _global_preservation (lines 449-509): the index pairs.  Atoms are       *)
(* numbered from 0 over the whole batch list, as the rows of feat_s are.   *)
(***************************************************************************)
\* torch.cumsum(x, dim=0)
RECURSIVE CumSum(_)
CumSum(x) ==
    IF x = <<>> THEN <<>>
    ELSE LET init == CumSum(SubSeq(x, 1, Len(x) - 1))
         IN  Append(init, (IF init = <<>> THEN 0 ELSE init[Len(init)]) + x[Len(x)])

\* torch.arange(n)
Arange(n) == [k \in 1..n |-> k - 1]

Squares(x) == [k \in 1..Len(x) |-> x[k] * x[k]]

\* cumsum(x) - x
OffsetInclusive(x) == CumSum(x)

Offset(x) == [k \in 1..Len(x) |-> CumSum(x)[k] - x[k]]

\* lines 450-490: index1 and index2 for the atom counts of the batch list
PairIndices(num_atoms_per_image) ==
    LET num_atoms_per_image_sqr == Squares(num_atoms_per_image)
        index_offset_expand == RepeatInterleave(Offset(num_atoms_per_image),
                                                num_atoms_per_image_sqr)
        num_atoms_per_image_expand == RepeatInterleave(num_atoms_per_image,
                                                       num_atoms_per_image_sqr)
        num_atom_pairs == IF num_atoms_per_image = <<>> THEN 0
                          ELSE CumSum(num_atoms_per_image_sqr)[Len(num_atoms_per_image)]
        index_sqr_offset == RepeatInterleave(Offset(num_atoms_per_image_sqr),
                                             num_atoms_per_image_sqr)
        atom_count_sqr == [p \in 1..num_atom_pairs |-> Arange(num_atom_pairs)[p] - index_sqr_offset[p]]
    IN  [index1 |-> [p \in 1..num_atom_pairs |->
                        (atom_count_sqr[p] \div num_atoms_per_image_expand[p])
                            + index_offset_expand[p]],
         index2 |-> [p \in 1..num_atom_pairs |->
                        (atom_count_sqr[p] % num_atoms_per_image_expand[p])
                            + index_offset_expand[p]]]

\* the feature handed over: out["node_feature"] of shape [atoms, D] or
\* out["vector_feature"] of shape [atoms, 3, D], with D = FeatureDim
FeatureKinds == {"node_feature", "vector_feature"}

FeatureDim == 2

SpatialRows == 3

\* the student's row of atom a (flat index from 0)
StudentRow(kind, a) ==
    IF kind = "node_feature" THEN [d \in 1..FeatureDim |-> RInt((a * d) % 3)]
    ELSE [x \in 1..SpatialRows |-> [d \in 1..FeatureDim |-> RInt((a * x + d) % 3)]]

\* the row of a teacher whose features are not the student's
OtherRow(kind, a) ==
    IF kind = "node_feature" THEN [d \in 1..FeatureDim |-> RInt((a * a + d) % 2)]
    ELSE [x \in 1..SpatialRows |-> [d \in 1..FeatureDim |-> RInt((a * a * d + x) % 2)]]

\* a tensor holds its entries: the sequence, every entry computed once
Tensor(x) == SubSeq(x, 1, Len(x))

FeatS(cfg) ==
    Tensor([k \in 1..NAtomsTotal(cfg.batch_list) |-> StudentRow(cfg.feature, k - 1)])

FeatT(cfg) ==
    Tensor([k \in 1..NAtomsTotal(cfg.batch_list) |->
               IF cfg.teacher = "identical" THEN StudentRow(cfg.feature, k - 1)
               ELSE OtherRow(cfg.feature, k - 1)])

RMean(x) == RDiv(RSum(x), RInt(Len(x)))

\* F.mse_loss(a, b, reduction="none"), one element
SquaredError(a, b) == RMul(RSub(a, b), RSub(a, b))

\* lines 497-505: mse_loss(..., reduction="none") of two rows, the mean over
\* dim 1 and then over every dimension left
RowDistance(kind, r1, r2) ==
    IF kind = "node_feature"
    THEN RMean([d \in 1..FeatureDim |-> SquaredError(r1[d], r2[d])])
    ELSE RMean([d \in 1..FeatureDim |->
                   RMean([x \in 1..SpatialRows |-> SquaredError(r1[x][d], r2[x][d])])])

\* torch_scatter broadcasts a one-dimensional index to the shape of src with
\* index.expand: it has to have the length of src, or length one
CanScatter(src, index) == Len(index) = Len(src) \/ Len(index) = 1

\* scatter(src, index, dim=0, reduce="mean"): one entry per group 0..max(index),
\* the mean of the entries of src of that group, 0 for a group without entries
ScatterMean(src, index) ==
    LET idx == [p \in 1..Len(src) |-> IF Len(index) = 1 THEN index[1] ELSE index[p]]
        size == 1 + Max({idx[p] : p \in 1..Len(src)})
        count(g) == Cardinality({p \in 1..Len(src) : idx[p] = g})
        total(g) == RSum([p \in 1..Len(src) |-> IF idx[p] = g THEN src[p] ELSE RInt(0)])
    IN  Tensor([k \in 1..size |->
            IF count(k - 1) = 0 THEN RInt(0) ELSE RDiv(total(k - 1), RInt(count(k - 1)))])

\* lines 492-506: dist, one entry per pair
PairDist(kind, feat_s, feat_t, i1, i2) ==
    Tensor([p \in 1..Len(i1) |->
        LET feat_s_distance == RowDistance(kind, feat_s[i1[p] + 1], feat_s[i2[p] + 1])
            feat_t_distance == RowDistance(kind, feat_t[i1[p] + 1], feat_t[i2[p] + 1])
        IN  SquaredError(feat_s_distance, feat_t_distance)])

\* batch_list[0].batch of line 508: the system of each atom, from 0, of the
\* first sub-batch
FirstBatch(cfg) ==
    LET b == BatchIndex(cfg.batch_list[1]) IN [k \in 1..Len(b) |-> b[k] - 1]

NoLoss == [raised |-> "", value |-> RInt(0)]

\* the batch lists handed over; the method reads the atom counts only, so
\* one sid for every system
PairLists ==
    {bl \in BatchLists :
        \A j \in 1..Len(bl) : \A k \in 1..Len(bl[j]) : bl[j][k].sid = SidThreshold}

PairInit ==
    /\ pconfig \in [batch_list : PairLists, feature : FeatureKinds,
                    teacher : {"identical", "other"}]
    /\ ppc = "start"
    /\ index1 = <<>>
    /\ index2 = <<>>
    /\ gp_loss = NoLoss

PairIdle ==
    /\ pconfig = [batch_list |-> <<>>]
    /\ ppc = "idle"
    /\ index1 = <<>>
    /\ index2 = <<>>
    /\ gp_loss = NoLoss

GlobalPreservationPairs ==
    /\ ppc = "start"
    /\ LET idx == PairIndices(NAtomsOf(pconfig.batch_list))
       IN  index1' = idx.index1 /\ index2' = idx.index2
    /\ ppc' = "paired"
    /\ UNCHANGED <<pconfig, gp_loss>>
    /\ UNCHANGED notPair

\* lines 492-509: the distances, the two scatters and the mean
GlobalPreservationLoss ==
    /\ ppc = "paired"
    /\ \E feat_s \in {FeatS(pconfig)}, feat_t \in {FeatT(pconfig)} :
       \E dist \in {PairDist(pconfig.feature, feat_s, feat_t, index1, index2)} :
       \E per_atom \in {ScatterMean(dist, index1)} :
           IF CanScatter(per_atom, FirstBatch(pconfig))
           THEN /\ gp_loss' = [raised |-> "",
                               value |-> RMean(ScatterMean(per_atom, FirstBatch(pconfig)))]
                /\ ppc' = "done"
           ELSE /\ gp_loss' = [raised |-> "RuntimeError", value |-> RInt(0)]
                /\ ppc' = "failed"
    /\ UNCHANGED <<pconfig, index1, index2>>
    /\ UNCHANGED notPair

PairNext == GlobalPreservationPairs \/ GlobalPreservationLoss

(***************************************************************************)
(* Properties of the index pairs.                                          *)
(***************************************************************************)
\* the flat indices of the atoms of system k of the batch list
AtomsOfSystem(k) ==
    LET n == NAtomsOf(pconfig.batch_list)
        before == RSum([q \in 1..(k - 1) |-> RInt(n[q])])[1]
    IN  before..(before + n[k] - 1)

SameSystemPairs ==
    UNION {AtomsOfSystem(k) \X AtomsOfSystem(k) : k \in 1..Len(NAtomsOf(pconfig.batch_list))}

\* C20: the pairs (index1, index2) of _global_preservation are exactly the
\* ordered pairs (a, b) of flat atom indices of one system, each once:
\* sum of n_i^2 pairs, none across systems.
C20_PairsWithinSystems ==
    ppc = "paired" =>
        /\ Len(index1) = Len(index2)
        /\ {<<index1[p], index2[p]>> : p \in 1..Len(index1)} = SameSystemPairs
        /\ Len(index1) = Cardinality(SameSystemPairs)
        /\ Len(index1) = RSum([k \in 1..Len(NAtomsOf(pconfig.batch_list)) |->
                                  RInt(NAtomsOf(pconfig.batch_list)[k]
                                       * NAtomsOf(pconfig.batch_list)[k])])[1]

\* the pairs of three systems of 2, 1 and 2 atoms, over two sub-batches
C20_Witness ==
    /\ ppc = "paired"
    /\ NAtomsOf(pconfig.batch_list) = <<2, 1, 2>>
    /\ Len(index1) = 9
    /\ \E p \in 1..9 : index1[p] = 4 /\ index2[p] = 3

(***************************************************************************)
(* The global-preservation loss of identical features.                     *)
(***************************************************************************)
PreservationReturned == ppc \in {"done", "failed"}

\* C21: whenever the student's and the teacher's features are identical, the
\* global-preservation loss (node and vector variant) is computed and is
\* zero, for every batch list: any number of systems, any atom counts.
C21_IdenticalFeaturesZeroLoss ==
    (PreservationReturned /\ pconfig.teacher = "identical") =>
        /\ ppc = "done"
        /\ gp_loss.raised = ""
        /\ gp_loss.value = RInt(0)

(***************************************************************************)
(* run_relaxations (lines 1390-1572) on world_size processes.  Every       *)
(* process runs the method on its own share of the relax loader; they meet *)
(* in distutils.synchronize() and in the all_reduce calls and share the    *)
(* files of results_dir.                                                   *)
(***************************************************************************)
MaxRanks == 2

MaxKeys == 1

Ranks(cfg) == 0..(cfg.world_size - 1)

\* distutils.is_master()
IsMaster(p) == p = 0

\* an attribute of relax_dataset[0]: not there, None, or a value
Attribute == {"absent", "None", "present"}

\* the share of the relax loader a rank iterates over, of at least one batch
\* as the dataset has a first item: per batch, whether check_traj_files
\* finds every trajectory file of it
SkipPatterns == {<<TRUE>>, <<FALSE>>, <<TRUE, FALSE>>}

RConfigs ==
    UNION {[world_size : {w},
            split : {"val", "test"},
            pos_relaxed : Attribute,
            y_relaxed : Attribute,
            write_pos : BOOLEAN,
            num_relaxation_batches : {<<>>, <<0>>},
            keys : {MaxKeys},
            skip : [0..(w - 1) -> SkipPatterns]] : w \in 1..MaxRanks}

\* lines 1401-1411: the split the method works with, whatever was passed
SplitOf(cfg) ==
    IF cfg.pos_relaxed = "present" /\ cfg.y_relaxed = "present" THEN "val" ELSE "test"

\* line 1419: config["task"].get("num_relaxation_batches", 1e9)
NumRelaxationBatches(cfg) ==
    IF cfg.num_relaxation_batches = <<>> THEN 1000000000 ELSE cfg.num_relaxation_batches[1]

\* the files: relaxed_pos_<rank>.npz and relaxed_positions.npz
RankFile(r) == [name |-> "relaxed_pos", rank |-> r]

FullFile == [name |-> "relaxed_positions", rank |-> -1]

Files(cfg) == {RankFile(r) : r \in Ranks(cfg)} \cup {FullFile}

NoFile == [present |-> FALSE, systems |-> 0, writing |-> {}, reading |-> {},
           written_by |-> {}, read_by |-> <<>>, removed_by |-> {}]

\* lines 1535-1551: the all_reduce calls of a process, in order: for both
\* tasks, for every key of the task's metrics, total and then numel.  The
\* metrics of a process that evaluated no batch are the empty dictionaries
\* of lines 1396-1397.
AllReduceCalls(keys, evaluated) ==
    IF evaluated = 0 THEN <<>>
    ELSE Concat([t \in 1..2 |->
            Concat([k \in 1..keys |->
                << <<(<<"is2rs", "is2re">>)[t], k, "total">>,
                   <<(<<"is2rs", "is2re">>)[t], k, "numel">> >>])])

RelaxInit ==
    /\ rconfig \in RConfigs
    /\ rproc = [p \in Ranks(rconfig) |->
                   [pc |-> "start", split |-> rconfig.split, i |-> 0, relaxed |-> 0,
                    evaluated |-> 0, loaded |-> 0, gathered |-> 0, issued |-> 0,
                    raised |-> ""]]
    /\ rfiles = [f \in Files(rconfig) |-> NoFile]

RelaxIdle ==
    /\ rconfig = [world_size |-> 0]
    /\ rproc = <<>>
    /\ rfiles = <<>>

\* a synchronize() that waits for nobody
NoBarrier(p) == TRUE

\* the process has reached distutils.synchronize()
AtBarrier(p) == rproc[p].pc \notin {"start", "loop", "save", "saving"}

\* lines 1390-1411
RelaxEnter(p) ==
    /\ rproc[p].pc = "start"
    /\ rproc' = [rproc EXCEPT ![p].pc = "loop", ![p].split = SplitOf(rconfig)]
    /\ UNCHANGED <<rconfig, rfiles>>
    /\ UNCHANGED notRelax

\* lines 1416-1484: one batch of the process's loader
RelaxBatch(p) ==
    /\ rproc[p].pc = "loop"
    /\ rproc[p].i < Len(rconfig.skip[p])
    /\ rproc[p].i < NumRelaxationBatches(rconfig)
    /\ rproc' =
          IF rconfig.skip[p][rproc[p].i + 1]
          THEN [rproc EXCEPT ![p].i = @ + 1]
          ELSE [rproc EXCEPT ![p].i = @ + 1,
                             ![p].relaxed = IF rconfig.write_pos THEN @ + 1 ELSE @,
                             ![p].evaluated = IF rproc[p].split = "val" THEN @ + 1 ELSE @]
    /\ UNCHANGED <<rconfig, rfiles>>
    /\ UNCHANGED notRelax

\* the loader is exhausted or line 1420 breaks
RelaxLoopExit(p) ==
    /\ rproc[p].pc = "loop"
    /\ rproc[p].i >= Len(rconfig.skip[p]) \/ rproc[p].i >= NumRelaxationBatches(rconfig)
    /\ rproc' = [rproc EXCEPT ![p].pc = IF rconfig.write_pos THEN "save" ELSE "metrics"]
    /\ UNCHANGED <<rconfig, rfiles>>
    /\ UNCHANGED notRelax

\* lines 1487-1496: np.savez_compressed(relaxed_pos_<rank>.npz) opens the file
SaveBegin(p) ==
    /\ rproc[p].pc = "save"
    /\ rfiles' = [rfiles EXCEPT ![RankFile(p)].writing = @ \cup {p},
                                ![RankFile(p)].written_by = @ \cup {p}]
    /\ rproc' = [rproc EXCEPT ![p].pc = "saving"]
    /\ UNCHANGED rconfig
    /\ UNCHANGED notRelax

\* ... and has written it
SaveEnd(p) ==
    /\ rproc[p].pc = "saving"
    /\ rfiles' = [rfiles EXCEPT ![RankFile(p)].writing = @ \ {p},
                                ![RankFile(p)].present = TRUE,
                                ![RankFile(p)].systems = rproc[p].relaxed]
    /\ rproc' = [rproc EXCEPT ![p].pc = "barrier"]
    /\ UNCHANGED rconfig
    /\ UNCHANGED notRelax

\* line 1498: distutils.synchronize() returns once every process is in it
Synchronize(p) ==
    /\ rproc[p].pc = "barrier"
    /\ \A q \in Ranks(rconfig) : AtBarrier(q)
    /\ rproc' = [rproc EXCEPT ![p].pc = IF IsMaster(p) THEN "gather" ELSE "metrics"]
    /\ UNCHANGED <<rconfig, rfiles>>
    /\ UNCHANGED notRelax

\* lines 1506-1511: the master opens relaxed_pos_<i>.npz
LoadBegin(p) ==
    /\ rproc[p].pc = "gather"
    /\ rproc[p].loaded < rconfig.world_size
    /\ LET f == RankFile(rproc[p].loaded)
       IN  IF rfiles[f].present
           THEN /\ rfiles' = [rfiles EXCEPT ![f].reading = @ \cup {p},
                                            ![f].read_by = Append(@, p)]
                /\ rproc' = [rproc EXCEPT ![p].pc = "loading"]
           ELSE /\ rproc' = [rproc EXCEPT ![p].pc = "failed",
                                          ![p].raised = "FileNotFoundError"]
                /\ UNCHANGED rfiles
    /\ UNCHANGED rconfig
    /\ UNCHANGED notRelax

\* lines 1512-1517: ... reads its arrays and removes it
LoadEnd(p) ==
    /\ rproc[p].pc = "loading"
    /\ LET f == RankFile(rproc[p].loaded)
       IN  /\ rfiles' = [rfiles EXCEPT ![f].reading = @ \ {p},
                                       ![f].present = FALSE,
                                       ![f].removed_by = @ \cup {p}]
           /\ rproc' = [rproc EXCEPT ![p].pc = "gather",
                                     ![p].loaded = @ + 1,
                                     ![p].gathered = @ + rfiles[f].systems]
    /\ UNCHANGED rconfig
    /\ UNCHANGED notRelax

\* lines 1519-1533: np.unique, np.concatenate (which raises ValueError for no
\* array at all), and np.savez_compressed(relaxed_positions.npz) opens the file
FullSaveBegin(p) ==
    /\ rproc[p].pc = "gather"
    /\ rproc[p].loaded = rconfig.world_size
    /\ IF rproc[p].gathered = 0
       THEN /\ rproc' = [rproc EXCEPT ![p].pc = "failed", ![p].raised = "ValueError"]
            /\ UNCHANGED rfiles
       ELSE /\ rfiles' = [rfiles EXCEPT ![FullFile].writing = @ \cup {p},
                                        ![FullFile].written_by = @ \cup {p}]
            /\ rproc' = [rproc EXCEPT ![p].pc = "full_saving"]
    /\ UNCHANGED rconfig
    /\ UNCHANGED notRelax

FullSaveEnd(p) ==
    /\ rproc[p].pc = "full_saving"
    /\ rfiles' = [rfiles EXCEPT ![FullFile].writing = @ \ {p},
                                ![FullFile].present = TRUE,
                                ![FullFile].systems = rproc[p].gathered]
    /\ rproc' = [rproc EXCEPT ![p].pc = "metrics"]
    /\ UNCHANGED rconfig
    /\ UNCHANGED notRelax

\* lines 1535-1551: the process enters its next all_reduce
AllReduceEnter(p) ==
    /\ rproc[p].pc = "metrics"
    /\ rproc[p].split = "val"
    /\ rproc[p].issued < Len(AllReduceCalls(rconfig.keys, rproc[p].evaluated))
    /\ rproc' = [rproc EXCEPT ![p].pc = "all_reduce", ![p].issued = @ + 1]
    /\ UNCHANGED <<rconfig, rfiles>>
    /\ UNCHANGED notRelax

\* the all_reduce returns once every process has entered its call of the
\* same number
AllReduceReturn(p) ==
    /\ rproc[p].pc = "all_reduce"
    /\ \A q \in Ranks(rconfig) : rproc[q].issued >= rproc[p].issued
    /\ rproc' = [rproc EXCEPT ![p].pc = "metrics"]
    /\ UNCHANGED <<rconfig, rfiles>>
    /\ UNCHANGED notRelax

\* lines 1535-1572: nothing left to reduce
RelaxReturn(p) ==
    /\ rproc[p].pc = "metrics"
    /\ \/ rproc[p].split # "val"
       \/ rproc[p].issued = Len(AllReduceCalls(rconfig.keys, rproc[p].evaluated))
    /\ rproc' = [rproc EXCEPT ![p].pc = "done"]
    /\ UNCHANGED <<rconfig, rfiles>>
    /\ UNCHANGED notRelax

RelaxNext ==
    \/ \E p \in Ranks(rconfig) : RelaxEnter(p)
    \/ \E p \in Ranks(rconfig) : RelaxBatch(p)
    \/ \E p \in Ranks(rconfig) : RelaxLoopExit(p)
    \/ \E p \in Ranks(rconfig) : SaveBegin(p)
    \/ \E p \in Ranks(rconfig) : SaveEnd(p)
    \/ \E p \in Ranks(rconfig) : Synchronize(p)
    \/ \E p \in Ranks(rconfig) : LoadBegin(p)
    \/ \E p \in Ranks(rconfig) : LoadEnd(p)
    \/ \E p \in Ranks(rconfig) : FullSaveBegin(p)
    \/ \E p \in Ranks(rconfig) : FullSaveEnd(p)
    \/ \E p \in Ranks(rconfig) : AllReduceEnter(p)
    \/ \E p \in Ranks(rconfig) : AllReduceReturn(p)
    \/ \E p \in Ranks(rconfig) : RelaxReturn(p)

(***************************************************************************)
(* Properties of run_relaxations.                                          *)
(***************************************************************************)
\* the process has written its positions and is in, or past, the barrier
ReachedBarrier(q) == rproc[q].pc \notin {"start", "loop", "save", "saving"}

\* C22: with write_pos on W processes, a process writes no per-rank file but
\* relaxed_pos_<its rank>.npz, the master alone reads and deletes per-rank
\* files and writes relaxed_positions.npz, a per-rank file is read only when
\* every process has reached the barrier, it is read once, and no file is
\* read while it is written.
C22_ResultFilesProtocol ==
    rconfig.write_pos =>
        /\ \A r \in Ranks(rconfig) :
              LET f == rfiles[RankFile(r)]
              IN  /\ f.written_by \subseteq {r}
                  /\ f.removed_by \subseteq {p \in Ranks(rconfig) : IsMaster(p)}
                  /\ \A k \in 1..Len(f.read_by) : IsMaster(f.read_by[k])
                  /\ Len(f.read_by) <= 1
                  /\ f.reading # {} => \A q \in Ranks(rconfig) : ReachedBarrier(q)
                  /\ rproc[0].loaded > r => Len(f.read_by) = 1
        /\ rfiles[FullFile].written_by \subseteq {p \in Ranks(rconfig) : IsMaster(p)}
        /\ \A f \in Files(rconfig) : rfiles[f].reading = {} \/ rfiles[f].writing = {}
        /\ \A p \in Ranks(rconfig) : rproc[p].raised # "FileNotFoundError"

\* two processes have written their files, the master has read and removed
\* both and written relaxed_positions.npz
C22_Witness ==
    /\ rconfig.world_size = 2
    /\ rconfig.write_pos
    /\ rfiles[FullFile].present
    /\ rfiles[FullFile].systems = 2
    /\ \A r \in Ranks(rconfig) :
          /\ rfiles[RankFile(r)].written_by = {r}
          /\ rfiles[RankFile(r)].read_by = <<0>>
          /\ rfiles[RankFile(r)].removed_by = {0}
          /\ ~rfiles[RankFile(r)].present
          /\ rproc[r].pc = "done"

\* relax_dataset[0] has pos_relaxed and y_relaxed, neither None
BothLabels == rconfig.pos_relaxed = "present" /\ rconfig.y_relaxed = "present"

PastLoop(p) == rproc[p].pc \notin {"start", "loop"}

\* C23: run_relaxations works validation-style exactly when the first item
\* of the relax dataset has pos_relaxed and y_relaxed, both not None;
\* otherwise, whatever split was passed, it evaluates no batch, reduces no
\* metric and raises nothing.
C23_SplitFromDataset ==
    \A p \in Ranks(rconfig) :
        rproc[p].pc # "start" =>
            /\ rproc[p].split = "val" <=> BothLabels
            /\ rproc[p].split # "val" =>
                  /\ rproc[p].split = "test"
                  /\ rproc[p].evaluated = 0
                  /\ rproc[p].issued = 0
                  /\ rproc[p].raised = ""

\* C30: in validation mode every process issues the same all_reduce calls,
\* two per metric key, whatever batches it got and skipped, and none is
\* left waiting in a call that another process never enters.
C30_SameAllReduceSequence ==
    \A p \in Ranks(rconfig) : \A q \in Ranks(rconfig) :
        (rproc[p].split = "val" /\ PastLoop(p) /\ PastLoop(q)) =>
            /\ AllReduceCalls(rconfig.keys, rproc[p].evaluated)
                  = AllReduceCalls(rconfig.keys, rproc[q].evaluated)
            /\ ~(/\ rproc[q].pc = "all_reduce"
                 /\ rproc[p].pc \in {"done", "failed"}
                 /\ rproc[p].issued < rproc[q].issued)

(***************************************************************************)
(* predict (lines 316-421) and the EMA swap of predict and                 *)
(* run_relaxations (lines 1392-1395, 1571-1572).  The parameters are       *)
(* "training" or "shadow", the averaged ones.                              *)
(***************************************************************************)
MaxCalls == 3

MaxLoaderBatches == 2

\* the batch lists a loader yields: one or two systems in one sub-batch, or
\* two sub-batches of one system
PredictLists ==
    {bl \in BatchLists :
        /\ Len(Concat(bl)) <= 2
        /\ \A k \in 1..Len(Concat(bl)) : Concat(bl)[k].sid = SidThreshold}

Loaders == {<<>>} \cup SeqsUpTo(PredictLists, MaxLoaderBatches)

\* lines 333-334: a Batch is iterated as [[data_loader]]
WrapBatch(b) == <<<<b>>>>

\* systems are named by the position of their batch list in the loader, the
\* sub-batch and the position in it; atoms by their row in the batch list
SystemIds(iter, batch_list, subs) ==
    Concat([s \in 1..Len(batch_list) |->
        IF s \in subs THEN [k \in 1..Len(batch_list[s]) |-> <<iter, s, k>>] ELSE <<>>])

AllSubBatches(batch_list) == 1..Len(batch_list)

\* lines 363-369: the ids come from batch_list[0]
FirstSubBatch(batch_list) == {1}

\* torch.split(x, batch_natoms.tolist()): the rows of every system
SplitRows(batch_list) ==
    LET n == NAtomsOf(batch_list)
        Before(k) == RSum([q \in 1..(k - 1) |-> RInt(n[q])])[1]
    IN  [k \in 1..Len(n) |-> [a \in 1..n[k] |-> Before(k) + a]]

\* force[(fixed == 0).tolist()]
FreeRows(rows) == SelectSeq(rows, LAMBDA j : FixedOf(j) = 0)

AllRows(rows) == rows

EmptyPredictions == [id |-> <<>>, energy |-> <<>>, forces |-> <<>>, chunk_idx |-> <<>>]

\* lines 362-399: what one batch list adds to predictions with per_image
PerImage(pred, iter, batch_list, results_file) ==
    LET per_image_forces == SplitRows(batch_list)
        free == [k \in 1..Len(per_image_forces) |-> FreeRows(per_image_forces[k])]
    IN  [id |-> pred.id \o SystemIds(iter, batch_list, FirstSubBatch(batch_list)),
         energy |-> pred.energy \o SystemIds(iter, batch_list, AllSubBatches(batch_list)),
         forces |-> pred.forces \o
                       (IF results_file THEN free
                        ELSE [k \in 1..Len(per_image_forces) |-> AllRows(per_image_forces[k])]),
         chunk_idx |-> pred.chunk_idx \o
                          (IF results_file THEN [k \in 1..Len(free) |-> Len(free[k])] ELSE <<>>)]

\* lines 400-403: the tensors of the batch list
WholeBatch(pred, iter, batch_list) ==
    [pred EXCEPT !.energy = SystemIds(iter, batch_list, AllSubBatches(batch_list)),
                 !.forces = [j \in 1..NAtomsTotal(batch_list) |-> j]]

\* ema.store(); ema.copy_to()
Store(w) == [w EXCEPT !.collected = w.params]

CopyTo(w) == [w EXCEPT !.params = "shadow"]

\* ema.restore()
Restore(w) == [w EXCEPT !.params = w.collected]

NoRestore(w) == w

SwapIn(w) == IF qconfig.ema THEN CopyTo(Store(w)) ELSE w

SwapOut(w) == IF qconfig.ema THEN Restore(w) ELSE w

NoCall == [loader |-> <<>>, per_image |-> TRUE, results_file |-> FALSE, caller |-> "", i |-> 0]

PredictInit ==
    /\ qconfig \in [ema : BOOLEAN]
    /\ qpc = "ready"
    /\ qcall = NoCall
    /\ predictions = EmptyPredictions
    /\ weights = [params |-> "training", collected |-> ""]
    /\ n_calls = 0

PredictIdle ==
    /\ qconfig = [ema |-> FALSE]
    /\ qpc = "idle"
    /\ qcall = NoCall
    /\ predictions = EmptyPredictions
    /\ weights = [params |-> "training", collected |-> ""]
    /\ n_calls = 0

\* lines 316-344: predict is called with a loader
PredictEnter ==
    /\ qpc = "ready"
    /\ n_calls < MaxCalls
    /\ \E loader \in Loaders, per_image \in BOOLEAN, results_file \in BOOLEAN :
          qcall' = [loader |-> loader, per_image |-> per_image,
                    results_file |-> results_file, caller |-> "", i |-> 0]
    /\ weights' = SwapIn(weights)
    /\ predictions' = EmptyPredictions
    /\ qpc' = "predict"
    /\ n_calls' = n_calls + 1
    /\ UNCHANGED qconfig
    /\ UNCHANGED notPredict

\* lines 346-403: one batch list of the loader
PredictBatch ==
    /\ qpc = "predict"
    /\ qcall.i < Len(qcall.loader)
    /\ IF qcall.per_image
       THEN /\ predictions' = PerImage(predictions, qcall.i + 1, qcall.loader[qcall.i + 1],
                                       qcall.results_file)
            /\ qcall' = [qcall EXCEPT !.i = @ + 1]
            /\ UNCHANGED <<qpc, weights>>
       ELSE /\ predictions' = WholeBatch(predictions, qcall.i + 1, qcall.loader[qcall.i + 1])
            /\ qpc' = IF qcall.caller = "" THEN "ready" ELSE qcall.caller
            /\ weights' = NoRestore(weights)
            /\ qcall' = NoCall
    /\ UNCHANGED <<qconfig, n_calls>>
    /\ UNCHANGED notPredict

\* lines 405-421: after the loop
PredictFinish ==
    /\ qpc = "predict"
    /\ qcall.i = Len(qcall.loader)
    /\ weights' = SwapOut(weights)
    /\ qpc' = IF qcall.caller = "" THEN "ready" ELSE qcall.caller
    /\ qcall' = NoCall
    /\ UNCHANGED <<qconfig, predictions, n_calls>>
    /\ UNCHANGED notPredict

\* lines 1390-1395: run_relaxations is called
RelaxationsEnter ==
    /\ qpc = "ready"
    /\ n_calls < MaxCalls
    /\ weights' = SwapIn(weights)
    /\ qpc' = "relaxing"
    /\ n_calls' = n_calls + 1
    /\ UNCHANGED <<qconfig, qcall, predictions>>
    /\ UNCHANGED notPredict

\* lines 1429-1437: ml_relax is handed the trainer as model and asks it
\* for the energy and the forces of the batch: predict(batch, per_image=False)
RelaxationsPredict ==
    /\ qpc = "relaxing"
    /\ n_calls < MaxCalls
    /\ \E b \in {bl[1] : bl \in PredictLists} :
          qcall' = [loader |-> WrapBatch(b), per_image |-> FALSE,
                    results_file |-> FALSE, caller |-> "relaxing", i |-> 0]
    /\ weights' = SwapIn(weights)
    /\ predictions' = EmptyPredictions
    /\ qpc' = "predict"
    /\ n_calls' = n_calls + 1
    /\ UNCHANGED qconfig
    /\ UNCHANGED notPredict

\* lines 1571-1572
RelaxationsFinish ==
    /\ qpc = "relaxing"
    /\ weights' = SwapOut(weights)
    /\ qpc' = "ready"
    /\ UNCHANGED <<qconfig, qcall, predictions, n_calls>>
    /\ UNCHANGED notPredict

PredictNext ==
    \/ PredictEnter \/ PredictBatch \/ PredictFinish
    \/ RelaxationsEnter \/ RelaxationsPredict \/ RelaxationsFinish

(***************************************************************************)
(* Properties of predict and of the EMA swap.                              *)
(***************************************************************************)
\* the systems of the batch lists predict has gone through, with their rows
ProcessedRows == Concat([b \in 1..qcall.i |-> SplitRows(qcall.loader[b])])

NonFixed(rows) == SelectSeq(rows, LAMBDA j : FixedOf(j) = 0)

\* C24: with per_image and a results file, id, energy, forces and chunk_idx
\* have one entry per system processed, also for batch lists of more than
\* one sub-batch; a system's force rows are those of its non-fixed atoms, in
\* order, its chunk_idx their number, and the chunk_idx sum to the rows.
C24_PerImageListsAligned ==
    (qpc = "predict" /\ qcall.per_image /\ qcall.results_file) =>
        /\ Len(predictions.id) = Len(ProcessedRows)
        /\ Len(predictions.energy) = Len(ProcessedRows)
        /\ Len(predictions.forces) = Len(ProcessedRows)
        /\ Len(predictions.chunk_idx) = Len(ProcessedRows)
        /\ \A k \in 1..Len(ProcessedRows) :
              /\ predictions.forces[k] = NonFixed(ProcessedRows[k])
              /\ predictions.chunk_idx[k] = Len(NonFixed(ProcessedRows[k]))
        /\ RSum([k \in 1..Len(predictions.chunk_idx) |-> RInt(predictions.chunk_idx[k])])[1]
              = Len(Concat(predictions.forces))

\* C29: with EMA, whenever no call of predict or run_relaxations is running
\* the model holds the training parameters: every call that swapped the
\* averaged ones in has put them back.
C29_TrainingParametersRestored ==
    (qconfig.ema /\ qpc = "ready") => weights.params = "training"

(***************************************************************************)
(* The gradient of the PGD search (lines 708-746).                         *)
(***************************************************************************)
PgdStepDone == gconfig.generator = "pgd" /\ increment # <<>>

\* the gradient of the loss of the last inner step with respect to an atom's delta
StepGradient(jm) == dirs[Len(dirs)][jm[1]][jm[2]]

\* C26: in every PGD mode the update of inner step k is the mode's increment
\* for the gradient of step k's loss alone; the gradients of the steps
\* before do not enter it.
C26_UpdateUsesStepGradient ==
    PgdStepDone =>
        \A jm \in AtomsG :
            increment[jm[1]][jm[2]] = PgdIncrement(gconfig, StepGradient(jm), ForceG(jm))

(***************************************************************************)
(* The square root of the weights and the outputs handed to _compute_loss. *)
(***************************************************************************)
WeightsSet == wpc \in {"energy", "forces", "done"}

\* w is the provenance weight W, square-rooted exactly under the criterion "mse"
RootedFor(criterion, w, W) ==
    IF criterion = "mse"
    THEN RMul(w, w) = W /\ ~RLess(w, RInt(0))
    ELSE w = W

\* C27: the per-system weight that multiplies the energies is square-rooted
\* exactly when the energy criterion is MSE, and the per-atom weight that
\* multiplies the forces exactly when the force criterion is MSE, for every
\* combination of the two criteria.
C27_RootedForMse ==
    WeightsSet =>
        /\ \A k \in 1..Len(weight_per_sample) :
              RootedFor(wconfig.loss_energy, weight_per_sample[k], WeightsPerSample(wconfig)[k])
        /\ \A j \in 1..Len(weight_per_node) :
              RootedFor(wconfig.loss_force, weight_per_node[j], WeightsPerNode(wconfig)[j])

\* C28: _compute_loss leaves the outputs of the forward pass it is handed
\* as they were, for every provenance weighting.
C28_OutputsUnchanged ==
    wpc \in {"forces", "done"} =>
        /\ out_energy = EnergiesOut(wconfig)
        /\ wpc = "done" => out_forces = ForcesOut(wconfig)

(***************************************************************************)
(* The specifications.                                                     *)
(***************************************************************************)
OthersIdle(own) ==
    /\ own = "train" \/ TrainIdle
    /\ own = "ctor" \/ CtorIdle
    /\ own = "fwd" \/ FwdIdle
    /\ own = "load" \/ LoadIdle
    /\ own = "weight" \/ WeightIdle
    /\ own = "gen" \/ GenIdle
    /\ own = "pair" \/ PairIdle
    /\ own = "relax" \/ RelaxIdle
    /\ own = "predict" \/ PredictIdle

InitFwd == FwdInit /\ OthersIdle("fwd")

SpecFwd == InitFwd /\ [][FwdNext]_vars

InitLoad == LoadInit /\ OthersIdle("load")

SpecLoad == InitLoad /\ [][LoadNext]_vars

InitWeight == WeightInit /\ OthersIdle("weight")

SpecWeight == InitWeight /\ [][WeightNext]_vars

InitGen == GenInit /\ OthersIdle("gen")

SpecGen == InitGen /\ [][GenNext]_vars

InitPair == PairInit /\ OthersIdle("pair")

SpecPair == InitPair /\ [][PairNext]_vars

InitCtor == CtorInit /\ OthersIdle("ctor")

SpecCtor == InitCtor /\ [][CtorNext]_vars

InitRelax == RelaxInit /\ OthersIdle("relax")

SpecRelax == InitRelax /\ [][RelaxNext]_vars

InitPredict == PredictInit /\ OthersIdle("predict")

SpecPredict == InitPredict /\ [][PredictNext]_vars

Init == TrainInit /\ OthersIdle("train")

Next == TrainEnter \/ EpochStart \/ TrainStep \/ EpochEnd \/ TrainFinish

Spec == Init /\ [][Next]_vars

(***************************************************************************)
(* Properties of train() and update_best.                                  *)
(***************************************************************************)

\* the last action was an iteration of the inner loop
StepJustRan == events # <<>> /\ events[1].kind = "step"

PrimaryIsMae == config.primary_metric = "forces_mae"

\* the steps the loop has executed so far that are multiples of k
Multiples(k) == {t \in (step0 + 1)..step : t % k = 0}

\* C1: train() starts at epoch s div L and skips s mod L steps of that epoch
\* (s = 150, L = 100: epoch 1, 50 skipped); the first executed step sets the
\* counter to s + 1, and the skip count is 0 in every later epoch.
C1_ResumeFromStep ==
    /\ StartEpoch(150, 100) = 1 /\ SkipSteps(150, 100) = 50
    /\ pc # "init" => start_epoch = step0 \div config.L
    /\ (pc = "step" /\ n_steps = 0) =>
           /\ epoch_int = step0 \div config.L
           /\ skip_steps = step0 % config.L
           /\ i = skip_steps
    /\ n_steps >= 1 => step = step0 + n_steps
    /\ (pc = "step" /\ epoch_int > start_epoch) => skip_steps = 0

\* a later epoch of a run resumed in the middle of an epoch
C1_Witness ==
    /\ pc = "step"
    /\ step0 % config.L # 0
    /\ epoch_int > start_epoch
    /\ n_steps >= 1

\* C2 (as claimed): with ReduceLROnPlateau the schedule is stepped exactly at
\* the steps with step % eval_every = 0, once, with the metric of that step's
\* validation pass; with any other scheduler exactly once at every step; in
\* every configuration, also without a validation loader.
C2_SchedulerStepping ==
    StepJustRan =>
        IF config.scheduler_type = "ReduceLROnPlateau"
        THEN /\ Count(events, "sched") = (IF step % EvalEvery(config) = 0 THEN 1 ELSE 0)
             /\ \A a \in 1..Len(events) :
                    events[a].kind = "sched" =>
                        \E b \in 1..(a - 1) : events[b] = Ev("val", events[a].val)
        ELSE Count(events, "sched") = 1

\* C3: best_val_metric is the minimum ('mae' metrics) or the maximum (others)
\* of its initial value and all validation metrics seen; best_checkpoint.pt is
\* saved exactly on the calls with a strictly better metric, predict on the
\* test loader runs on exactly those calls when a test loader exists, and an
\* equal or worse metric changes nothing.
C3_BestState ==
    /\ (pc # "init" /\ ~config.same_primary) =>
           best0 = (IF PrimaryIsMae THEN 1000000000 ELSE -1)
    /\ pc # "init" =>
           best_val_metric = (IF PrimaryIsMae THEN Min(seen \cup {best0})
                                              ELSE Max(seen \cup {best0}))

C3_BestAction ==
    n_val' = n_val + 1 =>
        LET m == val_metrics'[1]
            better == IF PrimaryIsMae THEN m < best_val_metric ELSE m > best_val_metric
        IN  /\ n_best' = n_best + (IF better THEN 1 ELSE 0)
            /\ n_predict' = n_predict + (IF better /\ config.has_test THEN 1 ELSE 0)
            /\ best_val_metric' = (IF better THEN m ELSE best_val_metric)

C3_BestTracking == [](C3_BestState) /\ [][C3_BestAction]_vars

\* a second validation that reports the same metric as the current best
C3_Witness ==
    /\ StepJustRan
    /\ n_val >= 2
    /\ Count(events, "val") = 1
    /\ Count(events, "best_save") = 0
    /\ val_metrics = <<best_val_metric>>
    /\ n_best >= 1

\* C4: checkpoint.pt is written at exactly the steps with
\* step % checkpoint_every = 0 when checkpoint_every # -1, and exactly once at
\* the end of every epoch (never mid-epoch) when it is -1; validation runs at
\* exactly the steps with step % eval_every = 0 when a validation loader
\* exists; within one step the checkpoint write precedes the validation pass
\* and the best-metric update.
C4_CheckpointAndValidation ==
    LET ce == CheckpointEvery(config)
        ee == EvalEvery(config)
    IN  /\ StepJustRan =>
               /\ Count(events, "ckpt") = (IF ce # -1 /\ step % ce = 0 THEN 1 ELSE 0)
               /\ Count(events, "val") = (IF config.has_val /\ step % ee = 0 THEN 1 ELSE 0)
               /\ \A a, b \in 1..Len(events) :
                      (events[a].kind = "ckpt" /\ events[b].kind \in {"val", "best_save", "predict"})
                          => a < b
        /\ n_ckpt = (IF ce # -1 THEN Cardinality(Multiples(ce)) ELSE epoch_int - start_epoch)
        /\ n_val = (IF config.has_val THEN Cardinality(Multiples(ee)) ELSE 0)

\* a step that is a checkpoint boundary and a validation boundary and finds a new best
C4_Witness ==
    /\ StepJustRan
    /\ Count(events, "ckpt") = 1
    /\ Count(events, "val") = 1
    /\ Count(events, "best_save") = 1
    /\ n_steps >= 2

\* an epoch end with checkpoint_every = -1, after a resumed partial epoch
C4_WitnessEpochEnd ==
    /\ CheckpointEvery(config) = -1
    /\ n_ckpt = 2


TrainStopped == pc \in {"done", "crashed"}

\* C25: from a persisted step s, with loader length L and max_epochs E, the
\* step counter takes s + 1, ..., E * L, each once and in order, the epoch
\* is step / L after every step, and train() returns after max(0, E * L - s)
\* steps.
C25_StepsToTheEnd ==
    /\ n_steps >= 1 =>
          /\ step = step0 + n_steps
          /\ step <= config.max_epochs * config.L
          /\ epoch_num = step
    /\ TrainStopped =>
          /\ pc = "done"
          /\ n_steps = Max({0, config.max_epochs * config.L - step0})

====
